---- MODULE Spec2Model ----
(***************************************************************************)
(* Verification model of the orchestration core: the vault (atomic,        *)
(* folder-addressed document store), the Ralph Wiggum loop with its retry  *)
(* executor, the dispatcher, the scheduler, the approval workflow and the  *)
(* event bus.  Coroutines are modelled at the granularity of their         *)
(* suspension points: the code between two awaits is one atomic action of  *)
(* the event loop.                                                         *)
(***************************************************************************)
EXTENDS Integers, Sequences, FiniteSets, TLC

VARIABLES
  files,        \* vault: directory entries, path -> inode
  idata,        \* vault: inode -> what the file holds
  vp,           \* vault: the frame of each coroutine inside a vault call
  state,        \* loop: LoopState
  stop_event,   \* loop: _stop_event
  pause_event,  \* loop: _pause_event
  loop_task,    \* loop: _loop_task (0 = None)
  drv,          \* loop: the _run_loop tasks created by start()
  ex,           \* loop: the _execute_task subtasks of each driver
  bus,          \* event bus: the task:* events seen by a subscriber, per task id
  ctl,          \* the caller of the loop's lifecycle API
  agents,       \* dispatcher: the entries of the _agents dict, in insertion order
  agent_stats,  \* dispatcher: _agent_stats, name -> AgentStats object
  agent_health, \* dispatcher: _agent_health, name -> HealthStatus.healthy
  heap,         \* dispatcher: the AgentStats objects, by identity
  calls,         \* dispatcher: the frame of each dispatch_task call
  rh,           \* dispatcher: the frame of refresh_health
  dn,           \* dispatcher: how many calls the callers have made
  sched,        \* scheduler: a prioritize_tasks call, its batch and its result
  ap,           \* approval workflow: the calls of the watcher and its events
  eb            \* event bus: the handler tables and the calls made on them

vaultVars == <<files, idata, vp>>

loopVars == <<state, stop_event, pause_event, loop_task, drv, ex, bus, ctl>>

dispVars == <<agents, agent_stats, agent_health, heap, calls, rh, dn>>

extVars == <<sched, ap, eb>>

vars == <<files, idata, vp, state, stop_event, pause_event, loop_task, drv, ex, bus, ctl,
          agents, agent_stats, agent_health, heap, calls, rh, dn, sched, ap, eb>>

(***************************************************************************)
(* Vault: src/backend/src/core/mcp/vault.py                                *)
(***************************************************************************)

\* class VaultFolder: the closed set of vault folders.
VaultFolder == {"Plans", "Needs_Action", "Done", "Pending_Approval",
                "Approved", "Rejected", "Logs"}

\* A python dict is a function from its keys; dict.update overrides keys.
dict_update(c, u) ==
  [k \in (DOMAIN c) \cup (DOMAIN u) |-> IF k \in DOMAIN u THEN u[k] ELSE c[k]]

\* content.pop("_vault_metadata", {}) leaves the dict without the metadata key.
pop_metadata(c) == [k \in (DOMAIN c) \ {"_vault_metadata"} |-> c[k]]

EmptyDict == [k \in {} |-> 0]

\* What an inode holds: a JSON document, nothing (just created/truncated),
\* or bytes that do not parse as JSON.
FileOk(d) == [st |-> "ok", d |-> d]
FileEmpty == [st |-> "empty", d |-> EmptyDict]
FileCorrupt == [st |-> "corrupt", d |-> EmptyDict]

\* Path objects: folder / "<id>.json" and its with_suffix(".tmp") sibling.
json_path(folder, id) == <<folder, id, "json">>
temp_path(folder, id) == <<folder, id, "tmp">>

path_exists(p) == p \in DOMAIN files

\* The document stored at a path, as json.loads would see it now.
doc_at(p) == idata[files[p]]

\* A document that a reader opening the path now would get back.
visible(folder, id) ==
  /\ path_exists(json_path(folder, id))
  /\ doc_at(json_path(folder, id)).st = "ok"

\* Return values of the vault coroutines.
RetPending == [kind |-> "pending", folder |-> "", content |-> EmptyDict]
RetNone == [kind |-> "None", folder |-> "", content |-> EmptyDict]
RetFile(folder, c) == [kind |-> "VaultFile", folder |-> folder, content |-> c]

VpIdle == [pc |-> "idle", op |-> "", id |-> "", src |-> "", dst |-> "",
           upd |-> EmptyDict, content |-> EmptyDict, fd |-> 0, flushed |-> FALSE,
           ret |-> RetPending]

\* Inodes still referenced by a directory entry or by an open file object.
live_inodes(f, v) ==
  {f[p] : p \in DOMAIN f} \cup ({v[q].fd : q \in DOMAIN v} \ {0})

\* The filesystem hands out an unused inode number.
fresh_inode(f, v) ==
  CHOOSE n \in 1..(Cardinality(live_inodes(f, v)) + 1) : n \notin live_inodes(f, v)

\* Drop the data of inodes nobody references any more.
gc(d, f, v) == [n \in (DOMAIN d) \cap live_inodes(f, v) |-> d[n]]

remove_path(f, p) == [q \in (DOMAIN f) \ {p} |-> f[q]]
set_path(f, p, n) == [q \in (DOMAIN f) \cup {p} |-> IF q = p THEN n ELSE f[q]]
set_inode(d, n, c) == [m \in (DOMAIN d) \cup {n} |-> IF m = n THEN c ELSE d[m]]

\* content["_vault_metadata"]["folder"] = to_folder.value, creating the
\* metadata entry when the document has none (timestamps are not modelled).
stamp_folder(c, folder) ==
  dict_update(c, [k \in {"_vault_metadata"} |-> [folder |-> folder]])

\* What an inode holds after `data` is written through a file object that was
\* opened (and truncated) earlier: the data, unless another writer's bytes
\* landed in the same inode in between, in which case a longer tail of those
\* bytes may remain behind the data.
write_outcomes(cur, data) ==
  IF cur.st = "empty" \/ cur = FileOk(data)
    THEN {FileOk(data)}
    ELSE {FileOk(data), FileCorrupt}

\* One coroutine's registers change; the filesystem is garbage-collected.
vault_step(p, rec, f, d) ==
  LET v == [vp EXCEPT ![p] = rec] IN
  /\ vp' = v
  /\ files' = f
  /\ idata' = gc(d, f, v)

returned(p, r) == [vp[p] EXCEPT !.pc = "done", !.fd = 0, !.ret = r]

\* move_file up to its first suspension: the exists() probe (lines 328-335).
move_file(p, id, src, dst, upd) ==
  /\ vp[p].pc = "idle"
  /\ LET call == [VpIdle EXCEPT !.op = "move", !.id = id, !.src = src,
                                !.dst = dst, !.upd = upd] IN
     IF ~path_exists(json_path(src, id))
       THEN vault_step(p, [call EXCEPT !.pc = "done", !.ret = RetNone], files, idata)
       ELSE vault_step(p, [call EXCEPT !.pc = "mv_open"], files, idata)

\* aiofiles.open(from_path, "r") (line 339); FileNotFoundError is caught at
\* line 383 and turns into None.
move_file_open(p) ==
  /\ vp[p].pc = "mv_open"
  /\ LET fp == json_path(vp[p].src, vp[p].id) IN
     IF ~path_exists(fp)
       THEN vault_step(p, returned(p, RetNone), files, idata)
       ELSE vault_step(p, [vp[p] EXCEPT !.pc = "mv_read", !.fd = files[fp]],
                       files, idata)

\* json.loads(await f.read()), the content update and the metadata update
\* (lines 340-356), then write_atomic_async up to its aiofiles.open.
move_file_read(p) ==
  /\ vp[p].pc = "mv_read"
  /\ LET data == idata[vp[p].fd] IN
     IF data.st # "ok"
       THEN vault_step(p, returned(p, RetNone), files, idata)
       ELSE vault_step(p,
              [vp[p] EXCEPT !.pc = "wa_open", !.fd = 0,
                 !.content = stamp_folder(dict_update(data.d, vp[p].upd), vp[p].dst)],
              files, idata)

\* write_atomic_async: aiofiles.open(temp_path, "w") creates or truncates
\* <id>.tmp in the destination folder (lines 156-158).
write_atomic_async_open(p) ==
  /\ vp[p].pc = "wa_open"
  /\ LET tp == temp_path(vp[p].dst, vp[p].id)
         n == IF path_exists(tp) THEN files[tp] ELSE fresh_inode(files, vp) IN
     vault_step(p, [vp[p] EXCEPT !.pc = "wa_write", !.fd = n, !.flushed = FALSE],
                set_path(files, tp, n), set_inode(idata, n, FileEmpty))

\* await f.write(json.dumps(data)) (line 159): the bytes reach the inode now
\* or stay in the file object's buffer until it is closed.
write_atomic_async_write(p) ==
  /\ vp[p].pc = "wa_write"
  /\ \/ vault_step(p, [vp[p] EXCEPT !.pc = "wa_close"], files, idata)
     \/ \E c \in write_outcomes(idata[vp[p].fd], vp[p].content) :
          vault_step(p, [vp[p] EXCEPT !.pc = "wa_close", !.flushed = TRUE],
                     files, set_inode(idata, vp[p].fd, c))

\* Leaving `async with`: the file object is flushed and closed.
write_atomic_async_close(p) ==
  /\ vp[p].pc = "wa_close"
  /\ IF vp[p].flushed
       THEN vault_step(p, [vp[p] EXCEPT !.pc = "wa_replace", !.fd = 0], files, idata)
       ELSE \E c \in write_outcomes(idata[vp[p].fd], vp[p].content) :
              vault_step(p, [vp[p] EXCEPT !.pc = "wa_replace", !.fd = 0],
                         files, set_inode(idata, vp[p].fd, c))

\* os.replace(temp_path, path) (line 161).
os_replace(f, tp, dp) ==
  IF tp = dp THEN f ELSE remove_path(set_path(f, dp, f[tp]), tp)

\* Mutant of unlink: the source is left behind.
unlink_skipped(f, fp) == f

\* from_path.unlink() (line 362).
unlink(f, fp) == remove_path(f, fp)

\* Mutant of move_file_commit: a source that is already gone is not an error
\* (as unlink(missing_ok=True) would behave).
move_file_commit_missing_ok(p) ==
  /\ vp[p].pc = "wa_replace"
  /\ LET tp == temp_path(vp[p].dst, vp[p].id)
         dp == json_path(vp[p].dst, vp[p].id)
         fp == json_path(vp[p].src, vp[p].id) IN
     IF ~path_exists(tp)
       THEN vault_step(p, returned(p, RetNone), files, idata)
       ELSE LET f1 == os_replace(files, tp, dp) IN
            vault_step(p,
              returned(p, RetFile(vp[p].dst, pop_metadata(vp[p].content))),
              remove_path(f1, fp), idata)

\* os.replace, from_path.unlink() and the return run without suspension
\* (vault.py lines 161, 362-381).  A missing temp file or a missing source
\* raises FileNotFoundError, which move_file turns into None (lines 383-385).
move_file_commit(p) ==
  /\ vp[p].pc = "wa_replace"
  /\ LET tp == temp_path(vp[p].dst, vp[p].id)
         dp == json_path(vp[p].dst, vp[p].id)
         fp == json_path(vp[p].src, vp[p].id) IN
     IF ~path_exists(tp)
       THEN vault_step(p, returned(p, RetNone), files, idata)
       ELSE LET f1 == os_replace(files, tp, dp) IN
            IF fp \notin DOMAIN f1
              THEN vault_step(p, returned(p, RetNone), f1, idata)
              ELSE vault_step(p,
                     returned(p, RetFile(vp[p].dst, pop_metadata(vp[p].content))),
                     unlink(f1, fp), idata)

\* read_file up to its first suspension: the exists() probe (lines 279-286).
read_file_call(folder, id) ==
  LET call == [VpIdle EXCEPT !.op = "read", !.id = id, !.src = folder] IN
  IF ~path_exists(json_path(folder, id))
    THEN [call EXCEPT !.pc = "done", !.ret = RetNone]
    ELSE [call EXCEPT !.pc = "rd_open"]

\* aiofiles.open(file_path, "r") (line 289); an exception gives None (305-307).
read_file_opened(rec) ==
  LET fp == json_path(rec.src, rec.id) IN
  IF ~path_exists(fp)
    THEN [rec EXCEPT !.pc = "done", !.fd = 0, !.ret = RetNone]
    ELSE [rec EXCEPT !.pc = "rd_read", !.fd = files[fp]]

\* json.loads(await f.read()), metadata stripped, VaultFile returned (290-304).
read_file_result(rec) ==
  LET data == idata[rec.fd] IN
  IF data.st # "ok"
    THEN [rec EXCEPT !.pc = "done", !.fd = 0, !.ret = RetNone]
    ELSE [rec EXCEPT !.pc = "done", !.fd = 0,
                     !.ret = RetFile(rec.src, pop_metadata(data.d))]

read_file(p, folder, id) ==
  /\ vp[p].pc = "idle"
  /\ vault_step(p, read_file_call(folder, id), files, idata)

read_file_open(p) ==
  /\ vp[p].pc = "rd_open"
  /\ vault_step(p, read_file_opened(vp[p]), files, idata)

read_file_read(p) ==
  /\ vp[p].pc = "rd_read"
  /\ vault_step(p, read_file_result(vp[p]), files, idata)

(***************************************************************************)
(* Scheduler: src/backend/src/core/ralphWiggum/scheduler.py                *)
(***************************************************************************)

Priority == {"low", "medium", "high", "critical"}

\* SchedulerConfig.priority_weights, with the .get(..., 25.0) default.
priority_weights(p) ==
  CASE p = "critical" -> 100
    [] p = "high" -> 50
    [] p = "medium" -> 25
    [] p = "low" -> 10
    [] OTHER -> 25

starvation_threshold_ms == 60000

\* Mutant of _calculate_score: the starvation bonus is given to every
\* priority.
_calculate_score_bonus_for_all(priority, age_ms) ==
  priority_weights(priority) * 10000 + age_ms
    + (IF age_ms > starvation_threshold_ms
         THEN (age_ms - starvation_threshold_ms) * 50
         ELSE 0)

\* _calculate_score, in units of 1/10000 so that it stays an integer:
\* weight + 0.1 * age_seconds + 5 * (age_ms - threshold) / 1000 for low and
\* medium tasks older than the threshold.
_calculate_score(priority, age_ms) ==
  priority_weights(priority) * 10000 + age_ms
    + (IF priority \in {"low", "medium"} /\ age_ms > starvation_threshold_ms
         THEN (age_ms - starvation_threshold_ms) * 50
         ELSE 0)

\* The age the scheduler sees: now - task.created_at.  The loop parses its
\* tasks without a created_at (loop.py lines 391-400), which then defaults to
\* the moment of the parse (agent.py line 135): such a task has no age_ms
\* here and its age is the sub-second time since the scan, taken as 0.
task_score(t) ==
  _calculate_score(t.priority, IF "age_ms" \in DOMAIN t THEN t.age_ms ELSE 0)

RECURSIVE insert_by_score(_, _)
insert_by_score(s, t) ==
  IF s = <<>> THEN <<t>>
  ELSE IF task_score(Head(s)) >= task_score(t)
    THEN <<Head(s)>> \o insert_by_score(Tail(s), t)
    ELSE <<t>> \o s

\* prioritize_tasks: list.sort(key=score, reverse=True), which is stable.
RECURSIVE prioritize_tasks(_)
prioritize_tasks(tasks) ==
  IF tasks = <<>> THEN <<>>
  ELSE insert_by_score(prioritize_tasks(SubSeq(tasks, 1, Len(tasks) - 1)),
                       tasks[Len(tasks)])

(***************************************************************************)
(* Ralph Wiggum loop: src/backend/src/core/ralphWiggum/loop.py             *)
(***************************************************************************)

\* RalphWiggumConfig
max_concurrent_tasks == 1
retry_attempts == 2
retry_backoff_ms == 1000

\* Bounds of the model: how many _run_loop tasks may be alive at once, how
\* many cycles are run, how many task documents are in Needs_Action.
MaxDrivers == 2
MaxCycles == 2
NumTasks == 2

Min(a, b) == IF a < b THEN a ELSE b

\* The task documents that producers have dropped into Needs_Action, in the
\* lexical order of their file names.
TaskOrder == SubSeq(<<"t1", "t2", "t3", "t4">>, 1, NumTasks)
TaskIds == {TaskOrder[i] : i \in 1..Len(TaskOrder)}

\* The task documents a producer has written into Needs_Action, each with
\* the status of a queued task.  t2 has no "type" and so parses to type
\* "unknown", which no agent handles.
task_document(id) ==
  CASE id = "t1" -> [id |-> id, type |-> "calendar:fetch", priority |-> "medium",
                     status |-> "queued"]
    [] id = "t2" -> [id |-> id, priority |-> "low", status |-> "queued"]
    [] id = "t3" -> [id |-> id, type |-> "calendar:fetch", priority |-> "high",
                     status |-> "queued"]
    [] OTHER -> [id |-> id, type |-> "calendar:fetch", status |-> "queued"]

\* self._agents: the registered agents, in registration order, each with the
\* capability names its can_handle accepts.
LoopAgents == <<[name |-> "calendar", capabilities |-> {"calendar:fetch"}]>>

\* BaseWatcher.can_handle
can_handle(agent, task) == task.type \in agent.capabilities

\* _find_agent_for_task without a dispatcher: the first registered agent that
\* can handle the task; 0 stands for None.
_find_agent_for_task(task) ==
  LET ok == {i \in 1..Len(LoopAgents) : can_handle(LoopAgents[i], task)} IN
  IF ok = {} THEN 0 ELSE CHOOSE i \in ok : \A j \in ok : i <= j

DriverIds == 1..MaxDrivers
Slots == 1..NumTasks

\* Indices of the coroutine frames in vp.
drv_pid(d) == 10 + d
ex_pid(d, k) == 100 * d + k
ExecIds == {ex_pid(d, k) : d \in DriverIds, k \in Slots}
LoopProcs == {drv_pid(d) : d \in DriverIds} \cup ExecIds

NoTask == [id |-> "", type |-> "", priority |-> ""]
NoResult == [success |-> FALSE, code |-> "", recoverable |-> FALSE, message |-> ""]

\* LoopState()
LoopState == [status |-> "stopped", phase |-> "idle", cycle_number |-> 0,
              last_cycle_time |-> 0, tasks_in_flight |-> 0, pending_tasks |-> <<>>,
              completed_tasks |-> 0, failed_tasks |-> 0, error |-> ""]

\* The frames of a driver task and of a subtask; ev is the list of task:*
\* events the execution has emitted so far, ev_error the error of its
\* task:failed payload, retry_after the result.error.retry_after of the
\* attempt whose backoff sleep is in progress (0 for None).
DrvNone == [pc |-> "none", todo |-> <<>>, tasks |-> <<>>, n |-> 0]
ExNone == [pc |-> "none", task |-> NoTask, attempt |-> 0, calls |-> 0,
           backoff_ms |-> 0, last_error |-> "", result |-> NoResult, ev |-> <<>>,
           ev_error |-> "", retry_after |-> 0]

\* A driver that has not been created, or whose task has finished.
drv_done(d) == drv[d].pc \in {"none", "exited", "cancelled"}

\* event_bus.emit of a task:* event, as a subscriber to "task:*" records it.
emit(b, topic, id) ==
  IF id \in DOMAIN b THEN [b EXCEPT ![id] = Append(@, topic)] ELSE b

\* RalphWiggumLoop.__init__ (lines 127-142).
InitLoop ==
  /\ state = LoopState
  /\ stop_event = FALSE
  /\ pause_event = TRUE
  /\ loop_task = 0
  /\ drv = [d \in DriverIds |-> DrvNone]
  /\ ex = [e \in ExecIds |-> ExNone]
  /\ bus = [id \in TaskIds |-> <<>>]
  /\ ctl = "idle"

\* list_folder: the sorted names of the *.json files of a folder.
list_folder(folder) ==
  SelectSeq(TaskOrder, LAMBDA id : path_exists(json_path(folder, id)))

\* Mutant of _parse_task_from_file: a priority that is no Priority is taken
\* as medium and the task is scheduled.
_parse_task_from_file_lenient(content, filename) ==
  LET get(k, dflt) == IF k \in DOMAIN content THEN content[k] ELSE dflt
      prio == get("priority", "medium") IN
  <<[id |-> get("id", filename), type |-> get("type", "unknown"),
     priority |-> IF prio \in Priority THEN prio ELSE "medium"]>>

\* _parse_task_from_file: <<task>>, or << >> when Priority(...) raises.
_parse_task_from_file(content, filename) ==
  LET get(k, dflt) == IF k \in DOMAIN content THEN content[k] ELSE dflt
      prio == get("priority", "medium") IN
  IF prio \notin Priority THEN <<>>
  ELSE <<[id |-> get("id", filename), type |-> get("type", "unknown"),
          priority |-> prio]>>

\* The files of the listing that read_file skips at once because they are gone.
RECURSIVE scan_skip(_)
scan_skip(todo) ==
  IF todo = <<>> THEN <<>>
  ELSE IF path_exists(json_path("Needs_Action", Head(todo))) THEN todo
  ELSE scan_skip(Tail(todo))

\* Mutant of tasks_to_execute: the slice is dropped and every task is run.
tasks_to_execute_unsliced(tasks) == tasks

\* tasks[: max_concurrent_tasks] and tasks[max_concurrent_tasks :] (312-313).
tasks_to_execute(tasks) == SubSeq(tasks, 1, Min(max_concurrent_tasks, Len(tasks)))
pending_tasks(tasks) == SubSeq(tasks, max_concurrent_tasks + 1, Len(tasks))

\* The frames of driver d's reads and of its subtasks, reset for a new cycle.
fresh_frames(d) ==
  [p \in DOMAIN vp |->
     IF p = drv_pid(d) \/ p \in {ex_pid(d, k) : k \in Slots} THEN VpIdle ELSE vp[p]]

\* Mutant of cycle_except: the exception leaves _run_loop and ends the driver.
cycle_except_fatal(d, st) ==
  /\ state' = [st EXCEPT !.error = "scheduler raised"]
  /\ drv' = [drv EXCEPT ![d] = [DrvNone EXCEPT !.pc = "exited"]]
  /\ ex' = [e \in ExecIds |->
              IF e \in {ex_pid(d, k) : k \in Slots} THEN ExNone ELSE ex[e]]

\* The scheduler given to set_scheduler raises in prioritize_tasks (sched.raises;
\* the loop takes any object, lines 144-146).  _run_cycle sets
\* state.error and re-raises, _run_loop catches it, sets state.error and goes
\* on to the inter-cycle wait.  The phase is left as it was.
cycle_except(d, st) ==
  /\ state' = [st EXCEPT !.error = "scheduler raised"]
  /\ drv' = [drv EXCEPT ![d] = [DrvNone EXCEPT !.pc = "sleep"]]
  /\ ex' = [e \in ExecIds |->
              IF e \in {ex_pid(d, k) : k \in Slots} THEN ExNone ELSE ex[e]]

\* _run_cycle from the end of the scan to its next suspension (lines 306-326):
\* prioritise, slice, set tasks_in_flight, create the subtasks and wait for
\* them in the TaskGroup, or go on to the dashboard when there is nothing to run.
run_cycle_dispatch(d, st, tasks) ==
  LET sorted == prioritize_tasks(tasks)
      run == tasks_to_execute(sorted)
      st2 == [st EXCEPT !.pending_tasks = pending_tasks(sorted),
                        !.tasks_in_flight = Len(run)] IN
  /\ vp' = fresh_frames(d)
  /\ idata' = gc(idata, files, fresh_frames(d))
  /\ IF sched.raises
       THEN cycle_except(d, st)
     ELSE IF run = <<>>
       THEN /\ state' = [st2 EXCEPT !.phase = "updating"]
            /\ drv' = [drv EXCEPT ![d] = [DrvNone EXCEPT !.pc = "update"]]
            /\ ex' = [e \in ExecIds |->
                        IF e \in {ex_pid(d, k) : k \in Slots} THEN ExNone ELSE ex[e]]
       ELSE /\ state' = [st2 EXCEPT !.phase = "executing"]
            /\ drv' = [drv EXCEPT ![d] = [DrvNone EXCEPT !.pc = "exec", !.n = Len(run)]]
            /\ ex' = [e \in ExecIds |->
                        IF \E k \in 1..Len(run) : e = ex_pid(d, k)
                          THEN [ExNone EXCEPT !.pc = "created",
                                  !.task = run[CHOOSE k \in 1..Len(run) : e = ex_pid(d, k)]]
                        ELSE IF e \in {ex_pid(d, k) : k \in Slots} THEN ExNone
                        ELSE ex[e]]
  /\ UNCHANGED <<files, stop_event, pause_event, loop_task, bus, ctl>>

\* _scan_for_tasks from one read_file to the next suspension (lines 371-376):
\* files that are gone return None at once; the next existing file is opened.
scan_continue(d, st, tasks, todo) ==
  LET rest == scan_skip(todo) IN
  IF rest = <<>>
    THEN run_cycle_dispatch(d, [st EXCEPT !.phase = "dispatching"], tasks)
    ELSE LET v == [vp EXCEPT ![drv_pid(d)] = read_file_call("Needs_Action", Head(rest))] IN
         /\ state' = st
         /\ drv' = [drv EXCEPT ![d] = [pc |-> "scan", todo |-> rest,
                                       tasks |-> tasks, n |-> 0]]
         /\ vp' = v
         /\ idata' = gc(idata, files, v)
         /\ UNCHANGED <<files, ex, stop_event, pause_event, loop_task, bus, ctl>>

\* _run_cycle up to its first suspension (lines 293-304, 366-372).
run_cycle_begin(d) ==
  /\ state.cycle_number < MaxCycles
  /\ scan_continue(d, [state EXCEPT !.cycle_number = @ + 1, !.phase = "scanning"],
                   <<>>, list_folder("Needs_Action"))

\* The head of `while not self._stop_event.is_set()` (lines 261-269).
run_loop_top(d) ==
  IF stop_event
    THEN /\ drv' = [drv EXCEPT ![d].pc = "exited"]
         /\ UNCHANGED <<vaultVars, state, stop_event, pause_event, loop_task, ex, bus, ctl>>
  ELSE IF ~pause_event
    THEN /\ drv' = [drv EXCEPT ![d].pc = "pause_wait"]
         /\ UNCHANGED <<vaultVars, state, stop_event, pause_event, loop_task, ex, bus, ctl>>
  ELSE run_cycle_begin(d)

\* The driver task runs for the first time, or its inter-cycle wait_for on
\* the stop event ends (lines 275-281).
_run_loop(d) ==
  /\ drv[d].pc \in {"created", "sleep"}
  /\ run_loop_top(d)
  /\ UNCHANGED <<dispVars, extVars>>

\* A driver woken from `await self._pause_event.wait()` (lines 263-269).
_run_loop_resumed(d) ==
  /\ drv[d].pc = "pause_woken"
  /\ IF stop_event
       THEN /\ drv' = [drv EXCEPT ![d].pc = "exited"]
            /\ UNCHANGED <<vaultVars, state, stop_event, pause_event, loop_task, ex, bus, ctl>>
       ELSE run_cycle_begin(d)
  /\ UNCHANGED <<dispVars, extVars>>

\* One suspension of read_file inside the scan; when the read has returned,
\* the file is parsed and the scan goes on (lines 372-376).
_scan_for_tasks(d) ==
  /\ drv[d].pc = "scan"
  /\ LET rec == IF vp[drv_pid(d)].pc = "rd_open"
                  THEN read_file_opened(vp[drv_pid(d)])
                  ELSE read_file_result(vp[drv_pid(d)]) IN
     IF rec.pc # "done"
       THEN /\ vp' = [vp EXCEPT ![drv_pid(d)] = rec]
            /\ UNCHANGED <<files, idata, loopVars>>
       ELSE LET parsed == IF rec.ret.kind = "VaultFile" /\ rec.ret.content # EmptyDict
                            THEN _parse_task_from_file(rec.ret.content, Head(drv[d].todo))
                            ELSE <<>> IN
            scan_continue(d, state, drv[d].tasks \o parsed, Tail(drv[d].todo))
  /\ UNCHANGED <<dispVars, extVars>>

\* The TaskGroup has joined all subtasks: phase updating, then the dashboard
\* is written (lines 324-326, 560-592).
run_cycle_join(d) ==
  /\ drv[d].pc = "exec"
  /\ \A k \in 1..drv[d].n : ex[ex_pid(d, k)].pc = "returned"
  /\ state' = [state EXCEPT !.phase = "updating"]
  /\ drv' = [drv EXCEPT ![d].pc = "update"]
  /\ UNCHANGED <<vaultVars, stop_event, pause_event, loop_task, ex, bus, ctl>>
  /\ UNCHANGED <<dispVars, extVars>>

\* The dashboard is written; the cycle ends and the driver waits for the stop
\* event or the cycle interval (lines 328-350, 275-281).
run_cycle_end(d) ==
  /\ drv[d].pc = "update"
  /\ state' = [state EXCEPT !.last_cycle_time = state.cycle_number, !.phase = "idle"]
  /\ drv' = [drv EXCEPT ![d].pc = "sleep"]
  /\ UNCHANGED <<vaultVars, stop_event, pause_event, loop_task, ex, bus, ctl>>
  /\ UNCHANGED <<dispVars, extVars>>

\* _pause_event.set() wakes every driver waiting on the event.
wake_paused(dr) ==
  [d \in DOMAIN dr |-> IF dr[d].pc = "pause_wait"
                         THEN [dr[d] EXCEPT !.pc = "pause_woken"] ELSE dr[d]]

\* An unused slot for the task that start() creates.
free_driver == CHOOSE d \in DriverIds :
                 drv_done(d) /\ \A o \in DriverIds : drv_done(o) => d <= o

\* start(): returns at once when the status is running (lines 169-171);
\* otherwise sets the status, the events, and creates the _run_loop task.
start ==
  /\ ctl = "idle"
  /\ state.status # "running"
  /\ \E d \in DriverIds : drv_done(d)
  /\ state' = [state EXCEPT !.status = "running", !.error = ""]
  /\ stop_event' = FALSE
  /\ pause_event' = TRUE
  /\ drv' = [wake_paused(drv) EXCEPT ![free_driver] = [DrvNone EXCEPT !.pc = "created"]]
  /\ loop_task' = free_driver
  /\ ex' = [e \in ExecIds |->
              IF e \in {ex_pid(free_driver, k) : k \in Slots} THEN ExNone ELSE ex[e]]
  /\ UNCHANGED <<vaultVars, bus, ctl>>
  /\ UNCHANGED <<dispVars, extVars>>

\* pause(): only when running (lines 227-232).
pause ==
  /\ ctl = "idle"
  /\ state.status = "running"
  /\ pause_event' = FALSE
  /\ state' = [state EXCEPT !.status = "paused"]
  /\ UNCHANGED <<vaultVars, stop_event, loop_task, drv, ex, bus, ctl>>
  /\ UNCHANGED <<dispVars, extVars>>

\* resume(): only when paused (lines 243-248).
resume ==
  /\ ctl = "idle"
  /\ state.status = "paused"
  /\ pause_event' = TRUE
  /\ drv' = wake_paused(drv)
  /\ state' = [state EXCEPT !.status = "running"]
  /\ UNCHANGED <<vaultVars, stop_event, loop_task, ex, bus, ctl>>
  /\ UNCHANGED <<dispVars, extVars>>

\* stop() up to `await asyncio.wait_for(self._loop_task, timeout=10.0)`
\* (lines 197-207).
stop ==
  /\ ctl = "idle"
  /\ state.status # "stopped"
  /\ stop_event' = TRUE
  /\ ctl' = "stopping"
  /\ UNCHANGED <<vaultVars, state, pause_event, loop_task, drv, ex, bus>>
  /\ UNCHANGED <<dispVars, extVars>>

\* The awaited driver has finished: stop() sets the status and returns
\* (lines 212-213).
stop_joined ==
  /\ ctl = "stopping"
  /\ drv_done(loop_task)
  /\ state' = [state EXCEPT !.status = "stopped", !.phase = "idle"]
  /\ ctl' = "idle"
  /\ UNCHANGED <<vaultVars, stop_event, pause_event, loop_task, drv, ex, bus>>
  /\ UNCHANGED <<dispVars, extVars>>

\* What one call of the worker's execute (through asyncio.wait_for) can do:
\* return success, return a recoverable or a non-recoverable failure, run
\* into the task timeout, or raise.  A recoverable failure comes without or
\* with a retry_after (AgentError, agent.py 57-71).
WorkerOutcomes == {"success", "recoverable", "recoverable_after", "fatal", "timeout", "raise"}

\* error.retry_after of the result of an attempt, in ms; 0 stands for None.
retry_after(outcome) == IF outcome = "recoverable_after" THEN 4 * retry_backoff_ms ELSE 0

ResultSuccess == [success |-> TRUE, code |-> "", recoverable |-> FALSE, message |-> ""]
ResultFatal == [success |-> FALSE, code |-> "BAD_INPUT", recoverable |-> FALSE,
                message |-> "bad input"]

\* str(last_error) after an attempt that is retried (lines 527-532): the
\* message of the returned error, the timeout text, or the exception's text.
error_message(outcome) ==
  CASE outcome = "recoverable" -> "HTTP_503"
    [] outcome = "recoverable_after" -> "HTTP_429"
    [] outcome = "fatal" -> ResultFatal.message
    [] outcome = "timeout" -> "Task timed out"
    [] OTHER -> "worker raised"

\* The synthetic result once the attempts are used up (lines 551-558).
ResultExhausted(last_error) ==
  [success |-> FALSE, code |-> "RETRY_EXHAUSTED", recoverable |-> FALSE,
   message |-> "Failed after " \o ToString(retry_attempts) \o " attempts: " \o last_error]

\* The result built when _execute_task catches an exception (lines 474-477).
ResultExecutionError(msg) ==
  [success |-> FALSE, code |-> "EXECUTION_ERROR", recoverable |-> TRUE, message |-> msg]

\* update_content of the move to Done (line 442).
done_patch == [result |-> "data", completed_at |-> "now"]

\* Mutant of returns_at_once: only a success ends the attempts.
returns_at_once_success_only(outcome) == outcome = "success"

\* `result.success or (result.error and not result.error.recoverable)`
\* (line 522): the result that is returned without another attempt.
returns_at_once(outcome) == outcome \in {"success", "fatal"}

\* Mutant of caught_outcomes: without `except Exception` an exception of the
\* worker leaves _execute_with_retry.
caught_outcomes_timeout_only == {"timeout"}

\* The exceptions of an attempt that _execute_with_retry catches and turns
\* into last_error: `except asyncio.TimeoutError`, `except Exception`
\* (lines 528-531).
caught_outcomes == {"timeout", "raise"}

\* Mutant of attempts_allowed: range(retry_attempts + 1), the first call not
\* counted as an attempt.
attempts_allowed_one_more == retry_attempts + 1

\* The number of attempts `for attempt in range(retry_attempts)` allows.
attempts_allowed == retry_attempts

\* Mutant of execute_task_return: the task returns without its counter and
\* without its task:completed or task:failed event.
execute_task_return_silent(e, rec, st, b, result, topic) ==
  /\ ex' = [ex EXCEPT ![e] = [rec EXCEPT !.pc = "returned", !.result = result]]
  /\ state' = [st EXCEPT !.tasks_in_flight = @ - 1]
  /\ bus' = b

\* The "error" of the task:failed payload: the result's error code (line 457),
\* or str(e) when _execute_task caught an exception (line 469).
failed_payload(result) ==
  IF result.success THEN ""
  ELSE IF result.code = "EXECUTION_ERROR" THEN result.message
  ELSE result.code

\* The tail of _execute_task: the counter, the task:completed or task:failed
\* event, the return, and `finally: tasks_in_flight -= 1` (lines 444-480).
execute_task_return(e, rec, st, b, result, topic) ==
  /\ ex' = [ex EXCEPT ![e] = [rec EXCEPT !.pc = "returned", !.result = result,
                                         !.ev = Append(rec.ev, topic),
                                         !.ev_error = failed_payload(result)]]
  /\ state' = [st EXCEPT
                 !.completed_tasks = IF topic = "task:completed" THEN @ + 1 ELSE @,
                 !.failed_tasks = IF topic = "task:failed" THEN @ + 1 ELSE @,
                 !.tasks_in_flight = @ - 1]
  /\ bus' = emit(b, topic, rec.task.id)

\* _execute_task from its start to the first suspension (lines 415-434, and
\* 463-480 when no agent is found): task:started is emitted, the agent is
\* looked up, and the first attempt of _execute_with_retry is awaited.
_execute_task(e) ==
  /\ ex[e].pc = "created"
  /\ LET rec == [ex[e] EXCEPT !.ev = <<"task:started">>]
         b == emit(bus, "task:started", ex[e].task.id) IN
     IF _find_agent_for_task(ex[e].task) = 0
       THEN execute_task_return(e, rec, state, b,
              ResultExecutionError("No agent found"), "task:failed")
     ELSE IF attempts_allowed <= 0
       THEN execute_task_return(e, rec, state, b, ResultExhausted(""), "task:failed")
     ELSE /\ ex' = [ex EXCEPT ![e] = [rec EXCEPT !.pc = "attempt", !.attempt = 0,
                                        !.calls = 1, !.backoff_ms = retry_backoff_ms]]
          /\ bus' = b
          /\ UNCHANGED state
  /\ UNCHANGED <<vaultVars, stop_event, pause_event, loop_task, drv, ctl>>
  /\ UNCHANGED <<dispVars, extVars>>

\* One attempt of _execute_with_retry ends (lines 508-546) and the code runs
\* on to the next suspension: the backoff sleep, or, back in _execute_task, the
\* first suspension of move_file, or the return.
_execute_with_retry(e, outcome) ==
  /\ ex[e].pc = "attempt"
  /\ IF returns_at_once(outcome) /\ outcome = "success"
       THEN /\ move_file(e, ex[e].task.id, "Needs_Action", "Done", done_patch)
            /\ IF vp'[e].pc = "done"
                 THEN execute_task_return(e, ex[e], state, bus, ResultSuccess,
                                          "task:completed")
                 ELSE /\ ex' = [ex EXCEPT ![e].pc = "moving", ![e].result = ResultSuccess]
                      /\ UNCHANGED <<state, bus>>
     ELSE IF returns_at_once(outcome)
       THEN /\ execute_task_return(e, ex[e], state, bus, ResultFatal, "task:failed")
            /\ UNCHANGED vaultVars
     ELSE IF outcome \in {"timeout", "raise"} \ caught_outcomes
       THEN /\ execute_task_return(e, ex[e], state, bus,
                 ResultExecutionError(error_message(outcome)), "task:failed")
            /\ UNCHANGED vaultVars
     ELSE IF ex[e].attempt < attempts_allowed - 1
       THEN /\ ex' = [ex EXCEPT ![e].pc = "backoff",
                                ![e].last_error = error_message(outcome),
                                ![e].retry_after = retry_after(outcome)]
            /\ UNCHANGED <<vaultVars, state, bus>>
     ELSE /\ execute_task_return(e, [ex[e] EXCEPT !.last_error = error_message(outcome)],
               state, bus, ResultExhausted(error_message(outcome)), "task:failed")
          /\ UNCHANGED vaultVars
  /\ UNCHANGED <<stop_event, pause_event, loop_task, drv, ctl>>
  /\ UNCHANGED <<dispVars, extVars>>

\* The duration of the backoff sleep in progress, in ms:
\* `await asyncio.sleep(backoff_ms / 1000)` (line 545).
backoff_sleep_ms(e) == ex[e].backoff_ms

\* The backoff sleep ends; the backoff doubles and the next attempt calls the
\* worker (lines 545-546, 508-520).
retry_backoff(e) ==
  /\ ex[e].pc = "backoff"
  /\ ex' = [ex EXCEPT ![e].pc = "attempt", ![e].attempt = @ + 1,
                      ![e].calls = @ + 1, ![e].backoff_ms = @ * 2,
                      ![e].retry_after = 0]
  /\ UNCHANGED <<vaultVars, state, stop_event, pause_event, loop_task, drv, bus, ctl>>
  /\ UNCHANGED <<dispVars, extVars>>

\* One suspension of move_file inside _execute_task; when move_file has
\* returned (a file or None), the task is counted completed (lines 438-449).
execute_task_move(e) ==
  /\ ex[e].pc = "moving"
  /\ \/ move_file_open(e)
     \/ move_file_read(e)
     \/ write_atomic_async_open(e)
     \/ write_atomic_async_write(e)
     \/ write_atomic_async_close(e)
     \/ move_file_commit(e)
  /\ IF vp'[e].pc = "done"
       THEN execute_task_return(e, ex[e], state, bus, ex[e].result, "task:completed")
       ELSE UNCHANGED <<ex, state, bus>>
  /\ UNCHANGED <<stop_event, pause_event, loop_task, drv, ctl>>
  /\ UNCHANGED <<dispVars, extVars>>

\* The subtasks of driver d that a cancellation reaches inside their body.
running_children(d) ==
  {e \in {ex_pid(d, k) : k \in 1..drv[d].n} : ex[e].pc \in {"attempt", "backoff", "moving"}}

\* The awaited driver can outlast the 10 s of stop(): it waits for a resume
\* that does not come, or its subtasks are inside worker calls or backoffs.
join_can_time_out(d) ==
  \/ drv[d].pc = "pause_wait"
  \/ /\ drv[d].pc = "exec"
     /\ \A k \in 1..drv[d].n : ex[ex_pid(d, k)].pc # "created"
     /\ \E e \in running_children(d) : ex[e].pc \in {"attempt", "backoff"}

\* stop(): wait_for times out (lines 207-213).  The driver is cancelled; the
\* TaskGroup cancels its subtasks, each of which raises CancelledError at its
\* suspension and runs only `finally: tasks_in_flight -= 1`; then the status
\* is set and stop() returns.
stop_timed_out ==
  /\ ctl = "stopping"
  /\ join_can_time_out(loop_task)
  /\ LET d == loop_task
         hit == running_children(d)
         v == [p \in DOMAIN vp |-> IF p \in hit THEN VpIdle ELSE vp[p]] IN
     /\ drv' = [drv EXCEPT ![d].pc = "cancelled"]
     /\ ex' = [e \in ExecIds |-> IF e \in hit THEN [ex[e] EXCEPT !.pc = "cancelled"]
                                 ELSE ex[e]]
     /\ state' = [state EXCEPT !.tasks_in_flight = @ - Cardinality(hit),
                               !.status = "stopped", !.phase = "idle"]
     /\ vp' = v
     /\ idata' = gc(idata, files, v)
  /\ ctl' = "idle"
  /\ UNCHANGED <<files, stop_event, pause_event, loop_task, bus>>
  /\ UNCHANGED <<dispVars, extVars>>

(***************************************************************************)
(* Dispatcher: src/backend/src/core/ralphWiggum/dispatcher.py              *)
(***************************************************************************)

\* DispatcherConfig
prefer_healthy_agents == TRUE
load_balance == TRUE
max_agent_load == 1

\* Bounds of the model: how many dispatch_task calls may be in flight, and
\* how many dispatch_task, register_agent and refresh_health calls are made.
MaxInFlight == 2
MaxDispatches == 2
MaxRegistrations == 3
MaxRefreshes == 1

\* The workers that may be registered, and the task types each can_handle.
WorkerNames == {"w1", "w2"}
worker_capabilities(name) ==
  IF name = "w1" THEN {"calendar:fetch"} ELSE {"calendar:fetch", "email:send"}
TaskTypes == {"calendar:fetch", "unknown"}

\* What the clock measures around a worker call, in ms.
ExecutionTimes == {3000, 12000}

RECURSIVE GCD(_, _)
GCD(a, b) == IF b = 0 THEN a ELSE GCD(b, a % b)

\* A non-negative rational, reduced: the model's float.
Rat(n, d) == LET g == GCD(n, d) IN <<n \div g, d \div g>>

\* AgentStats(); last_dispatch is written and never read, and is left out.
AgentStats == [tasks_dispatched |-> 0, tasks_completed |-> 0, tasks_failed |-> 0,
               current_load |-> 0, avg_execution_time_ms |-> <<0, 1>>]

\* The _agents dict as CPython keeps it: an array of entries in insertion
\* order, where a deleted key leaves a hole ("").  The array is not compacted
\* while it has fewer than six entries.
dict_keys(entries) == SelectSeq(entries, LAMBDA n : n # "")
dict_has(entries, name) == \E i \in 1..Len(entries) : entries[i] = name
dict_set(entries, name) == IF dict_has(entries, name) THEN entries ELSE Append(entries, name)
dict_del(entries, name) == [i \in 1..Len(entries) |-> IF entries[i] = name THEN "" ELSE entries[i]]

\* The AgentStats objects live in a heap; an object that neither the map nor
\* a dispatch_task frame refers to is garbage, and its cell is free.
ObjectIds == 1..(Cardinality(WorkerNames) + MaxInFlight)
live_objects(m, fr) ==
  {m[n] : n \in DOMAIN m} \cup {fr[p].obj : p \in DOMAIN fr}
new_object(m, fr) ==
  CHOOSE o \in ObjectIds \ live_objects(m, fr) :
    \A q \in ObjectIds \ live_objects(m, fr) : o <= q
collect(h, m, fr) ==
  [o \in ObjectIds |-> IF o \in live_objects(m, fr) THEN h[o] ELSE AgentStats]

\* _agent_stats.get(name, AgentStats()): the object of the name, or a new one.
stats_get(m, fr, name) == IF name \in DOMAIN m THEN m[name] ELSE new_object(m, fr)

\* m[name] = obj
map_set(m, name, obj) == [n \in DOMAIN m \cup {name} |-> IF n = name THEN obj ELSE m[n]]
map_del(m, name) == [n \in DOMAIN m \ {name} |-> m[n]]

\* Mutant of at_capacity: the test is off by one.
at_capacity_over(stats) == stats.current_load > max_agent_load

\* The load-balancing test of _calculate_agent_score (line 223).
at_capacity(stats) == stats.current_load >= max_agent_load

\* _calculate_agent_score (lines 211-240) as an exact fraction <<num, den>>
\* with den > 0; <<0, 1>> when the agent cannot be used.
_calculate_agent_score(name) ==
  LET stats == IF name \in DOMAIN agent_stats THEN heap[agent_stats[name]] ELSE AgentStats
      unhealthy == prefer_healthy_agents /\ name \in DOMAIN agent_health
                   /\ ~agent_health[name]
      avg == stats.avg_execution_time_ms
      nd == IF stats.tasks_dispatched > 0 THEN stats.tasks_dispatched ELSE 1
      den == nd * 1000 * avg[2]
      base == 100 - (IF unhealthy THEN 50 ELSE 0)
                  - (IF load_balance THEN stats.current_load * 10 ELSE 0)
      rate == IF stats.tasks_dispatched > 0
                THEN 20 * stats.tasks_completed * 1000 * avg[2] ELSE 0
      speed == IF avg[1] > 0 /\ 10000 * avg[2] > avg[1]
                 THEN nd * (10000 * avg[2] - avg[1]) ELSE 0
      num == base * den + rate + speed IN
  IF load_balance /\ at_capacity(stats) THEN <<0, 1>>
  ELSE IF num <= 0 THEN <<0, 1>>
  ELSE <<num, den>>

score_gt(a, b) == a[1] * b[2] > b[1] * a[2]

\* find_agent (lines 166-195): the capable agents with a positive score, in
\* dict order; the stable descending sort puts first the earliest of the
\* best.  "" stands for None.
find_agent(task_type) ==
  LET keys == dict_keys(agents)
      cand == {i \in 1..Len(keys) :
                 /\ task_type \in worker_capabilities(keys[i])
                 /\ _calculate_agent_score(keys[i])[1] > 0}
      sc(i) == _calculate_agent_score(keys[i]) IN
  IF cand = {} THEN ""
  ELSE keys[CHOOSE i \in cand :
              \A j \in cand : /\ ~score_gt(sc(j), sc(i))
                              /\ (j < i => score_gt(sc(i), sc(j)))]

DispFrames == 1..MaxInFlight

\* A dispatch_task frame: the task type, the agent name and the AgentStats
\* object the call holds; when idle, what the last call in it returned (the
\* worker's outcome or the code of the dispatcher's own error, and whether
\* the dispatcher's error is recoverable).
DpIdle == [pc |-> "idle", type |-> "", name |-> "", obj |-> 0, ret |-> "",
           recoverable |-> FALSE]
RhIdle == [pc |-> "idle", i |-> 0, used |-> 0, name |-> "", error |-> FALSE]

\* Dispatcher.__init__ (lines 86-92).
InitDisp ==
  /\ agents = <<>>
  /\ agent_stats = [n \in {} |-> 0]
  /\ agent_health = [n \in {} |-> TRUE]
  /\ heap = [o \in ObjectIds |-> AgentStats]
  /\ calls = [p \in DispFrames |-> DpIdle]
  /\ rh = RhIdle
  /\ dn = [dispatches |-> 0, registrations |-> 0, refreshes |-> 0]

\* register_agent (lines 101-103): the name gets a new AgentStats object,
\* whether or not it had one.
register_agent(name) ==
  /\ dn.registrations < MaxRegistrations
  /\ agents' = dict_set(agents, name)
  /\ agent_stats' = map_set(agent_stats, name, new_object(agent_stats, calls))
  /\ heap' = collect(heap, agent_stats', calls)
  /\ dn' = [dn EXCEPT !.registrations = @ + 1]
  /\ UNCHANGED <<agent_health, calls, rh>>
  /\ UNCHANGED <<vaultVars, loopVars, extVars>>

\* unregister_agent (lines 133-149).
unregister_agent(name) ==
  /\ IF ~dict_has(agents, name)
       THEN UNCHANGED dispVars
       ELSE /\ agents' = dict_del(agents, name)
            /\ agent_stats' = map_del(agent_stats, name)
            /\ agent_health' = map_del(agent_health, name)
            /\ heap' = collect(heap, agent_stats', calls)
            /\ UNCHANGED <<calls, rh, dn>>
  /\ UNCHANGED <<vaultVars, loopVars, extVars>>

\* Mutant of dispatch_task_no_agent: the failure is not recoverable.
dispatch_task_no_agent_final(p, task_type) ==
  /\ calls' = [calls EXCEPT ![p] = [DpIdle EXCEPT !.type = task_type,
                                                   !.ret = "NO_AGENT_AVAILABLE"]]
  /\ UNCHANGED <<agent_stats, heap>>

\* dispatch_task when find_agent returned None (lines 254-267): the failure
\* NO_AGENT_AVAILABLE, recoverable, is returned at once.
dispatch_task_no_agent(p, task_type) ==
  /\ calls' = [calls EXCEPT ![p] = [DpIdle EXCEPT !.type = task_type,
                                                   !.ret = "NO_AGENT_AVAILABLE",
                                                   !.recoverable = TRUE]]
  /\ UNCHANGED <<agent_stats, heap>>

\* dispatch_task up to the await of the worker (lines 252-290); without an
\* agent it returns NO_AGENT_AVAILABLE at once.  A new call takes the first
\* free frame.
dispatch_task(p, task_type) ==
  /\ calls[p].pc = "idle"
  /\ \A q \in DispFrames : calls[q].pc = "idle" => p <= q
  /\ dn.dispatches < MaxDispatches
  /\ dn' = [dn EXCEPT !.dispatches = @ + 1]
  /\ LET name == find_agent(task_type) IN
     IF name = ""
       THEN dispatch_task_no_agent(p, task_type)
       ELSE LET obj == stats_get(agent_stats, calls, name) IN
            /\ heap' = [heap EXCEPT ![obj].tasks_dispatched = @ + 1,
                                    ![obj].current_load = @ + 1]
            /\ agent_stats' = map_set(agent_stats, name, obj)
            /\ calls' = [calls EXCEPT ![p] = [DpIdle EXCEPT !.pc = "executing",
                                                !.type = task_type, !.name = name,
                                                !.obj = obj]]
  /\ UNCHANGED <<agents, agent_health, rh>>
  /\ UNCHANGED <<vaultVars, loopVars, extVars>>

\* _update_execution_stats (lines 319-334): the object is looked up again by
\* name; the heap and the map after the update.
_update_execution_stats(h, m, fr, name, execution_time_ms, success) ==
  LET obj == stats_get(m, fr, name)
      s == h[obj]
      completed == IF success THEN s.tasks_completed + 1 ELSE s.tasks_completed
      failed == IF success THEN s.tasks_failed ELSE s.tasks_failed + 1
      total == completed + failed
      avg == s.avg_execution_time_ms IN
  [heap |-> [h EXCEPT ![obj] =
               [s EXCEPT !.tasks_completed = completed, !.tasks_failed = failed,
                         !.avg_execution_time_ms =
                            Rat(avg[1] * (total - 1) + execution_time_ms * avg[2],
                                avg[2] * total)]],
   map |-> map_set(m, name, obj)]

\* dispatch_task from the return of the worker (lines 292-315): the stats of
\* the name are updated, or, when the worker raised, tasks_failed of the
\* object this call holds; then `finally` lowers the load of that object.
dispatch_task_return(p, outcome, execution_time_ms) ==
  /\ calls[p].pc = "executing"
  /\ IF outcome = "raise"
       THEN /\ calls' = [calls EXCEPT ![p] = [DpIdle EXCEPT !.type = calls[p].type,
                                                        !.ret = "DISPATCH_ERROR",
                                                        !.recoverable = TRUE]]
            /\ heap' = collect([heap EXCEPT ![calls[p].obj].tasks_failed = @ + 1,
                                            ![calls[p].obj].current_load = @ - 1],
                               agent_stats, calls')
            /\ UNCHANGED agent_stats
       ELSE LET u == _update_execution_stats(heap, agent_stats, calls, calls[p].name,
                                             execution_time_ms, outcome = "success") IN
            /\ calls' = [calls EXCEPT ![p] = [DpIdle EXCEPT !.type = calls[p].type,
                                                        !.ret = outcome]]
            /\ agent_stats' = u.map
            /\ heap' = collect([u.heap EXCEPT ![calls[p].obj].current_load = @ - 1],
                               u.map, calls')
  /\ UNCHANGED <<agents, agent_health, rh, dn>>
  /\ UNCHANGED <<vaultVars, loopVars, extVars>>

\* next() of the iterator over _agents.items(): RuntimeError when the size of
\* the dict has changed, StopIteration after the last entry, else the next
\* entry from position i on.
items_next(r) ==
  LET later == {j \in (r.i + 1)..Len(agents) : agents[j] # ""} IN
  IF Len(dict_keys(agents)) # r.used THEN [RhIdle EXCEPT !.error = TRUE]
  ELSE IF later = {} THEN RhIdle
  ELSE LET j == CHOOSE j \in later : \A k \in later : j <= k IN
       [pc |-> "checking", i |-> j, used |-> r.used, name |-> agents[j], error |-> FALSE]

\* refresh_health up to the first health_check (lines 338-340).
refresh_health ==
  /\ rh.pc = "idle"
  /\ dn.refreshes < MaxRefreshes
  /\ dn' = [dn EXCEPT !.refreshes = @ + 1]
  /\ rh' = items_next([RhIdle EXCEPT !.used = Len(dict_keys(agents))])
  /\ UNCHANGED <<agents, agent_stats, agent_health, heap, calls>>
  /\ UNCHANGED <<vaultVars, loopVars, extVars>>

\* One health_check returns or raises; the health is stored and the
\* iteration goes on (lines 340-362).
refresh_health_checked(healthy) ==
  /\ rh.pc = "checking"
  /\ agent_health' = map_set(agent_health, rh.name, healthy)
  /\ rh' = items_next(rh)
  /\ UNCHANGED <<agents, agent_stats, heap, calls, dn>>
  /\ UNCHANGED <<vaultVars, loopVars, extVars>>

(***************************************************************************)
(* Initial values of the scheduler call, the approval workflow and the     *)
(* event bus when a specification leaves them alone.                       *)
(***************************************************************************)

InitExt ==
  /\ sched = [pc |-> "idle", batch |-> <<>>, result |-> <<>>, raises |-> FALSE]
  /\ ap = [pc |-> "idle"]
  /\ eb = [pc |-> "idle"]

\* The caller has its answer and may call again.
read_file_again(p) ==
  /\ vp[p].pc = "done"
  /\ vault_step(p, [VpIdle EXCEPT !.ret = vp[p].ret], files, idata)

(***************************************************************************)
(* Specification of the vault alone: one document, two concurrent          *)
(* move_file callers and a reader that calls read_file again and again.    *)
(***************************************************************************)

VaultMovers == {1, 2}
VaultReaders == {3}
VaultProcs == VaultMovers \cup VaultReaders

\* The folders the callers of this specification pass to the vault.
CallFolders == {"Pending_Approval", "Approved", "Rejected"}

\* The update_content arguments the callers pass (None, or a status patch).
CallUpdates == {EmptyDict, [status |-> "approved"]}

DocId == "a1"

\* A document as create_file stores it (lines 239-249).
created_doc(folder, id, content) ==
  FileOk(stamp_folder(content, folder))

OldContent == [id |-> DocId, status |-> "pending"]

InitFolder == "Pending_Approval"

InitVault ==
  /\ files = [q \in {json_path(InitFolder, DocId)} |-> 1]
  /\ idata = [n \in {1} |-> created_doc(InitFolder, DocId, OldContent)]
  /\ vp = [p \in VaultProcs |-> VpIdle]
  /\ InitLoop
  /\ InitDisp
  /\ InitExt

\* The vault is exercised on its own: the loop and the dispatcher stand still.
rest_unchanged == UNCHANGED <<loopVars, dispVars, extVars>>

MoverNext ==
  \E p \in VaultMovers :
    \/ \E src \in CallFolders, dst \in CallFolders, upd \in CallUpdates :
         move_file(p, DocId, src, dst, upd) /\ rest_unchanged
    \/ move_file_open(p) /\ rest_unchanged
    \/ move_file_read(p) /\ rest_unchanged
    \/ write_atomic_async_open(p) /\ rest_unchanged
    \/ write_atomic_async_write(p) /\ rest_unchanged
    \/ write_atomic_async_close(p) /\ rest_unchanged
    \/ move_file_commit(p) /\ rest_unchanged

ReaderNext ==
  \E p \in VaultReaders :
    \/ \E f \in CallFolders : read_file(p, f, DocId) /\ rest_unchanged
    \/ read_file_open(p) /\ rest_unchanged
    \/ read_file_read(p) /\ rest_unchanged
    \/ read_file_again(p) /\ rest_unchanged

NextVault == MoverNext \/ ReaderNext

SpecVault == InitVault /\ [][NextVault]_vars

(***************************************************************************)
(* Approval workflow: src/backend/src/agents/approval/watcher.py           *)
(***************************************************************************)

\* The coroutines that run ApprovalWatcher.execute, and the calls they make
\* in all.
ApCallers == {1, 2}
MaxApprovalCalls == 3

\* task.payload.get("reason") of a reject task: a text, or None.
Reasons == {"None", "not now"}

\* update_content of _approve (lines 240-245) and of _reject (293-298);
\* timestamps and the approver's and rejector's ids are not modelled.
approve_patch == [status |-> "approved"]
reject_patch(reason) == [status |-> "rejected", rejection_reason |-> reason]

\* The frame of one execute call.  `overlap`, `pending` and `after_approve`
\* record how the call lies in time: whether another call was in flight
\* during it, whether the approval was readable in Pending_Approval when it
\* began, and whether an approve had already returned success by then;
\* `probe` is the folder of GetFolders a get is reading.
ApIdle == [pc |-> "idle", type |-> "", reason |-> "None", code |-> "", emitted |-> 0,
           overlap |-> FALSE, pending |-> FALSE, after_approve |-> FALSE,
           probe |-> 0]

\* The folders _get_approval probes, in order (line 380).
GetFolders == <<"Pending_Approval", "Approved", "Rejected">>

\* The loop of _get_approval from folder k to its next suspension (lines
\* 380-382): read_file returns None at once for a folder that does not hold
\* the file.  k beyond the last folder means the loop has ended.
RECURSIVE get_probe(_)
get_probe(k) ==
  IF k > Len(GetFolders) THEN [k |-> k, call |-> VpIdle]
  ELSE LET call == read_file_call(GetFolders[k], DocId) IN
       IF call.pc = "done" THEN get_probe(k + 1)
       ELSE [k |-> k, call |-> call]

\* _get_approval goes on from folder k (lines 380-395): it suspends in a
\* read_file, or returns NOT_FOUND when no folder is left.
get_continue(p, k, a, frames) ==
  LET r == get_probe(k) IN
  IF r.call.pc = "idle"
    THEN /\ ap' = [a EXCEPT !.calls = [frames EXCEPT ![p].pc = "returned",
                                                     ![p].code = "NOT_FOUND"]]
         /\ vault_step(p, [VpIdle EXCEPT !.pc = "done", !.ret = RetNone], files, idata)
    ELSE /\ ap' = [a EXCEPT !.calls = [frames EXCEPT ![p].pc = "probing",
                                                     ![p].probe = r.k]]
         /\ vault_step(p, r.call, files, idata)

InitApproval ==
  /\ files = [q \in {json_path(InitFolder, DocId)} |-> 1]
  /\ idata = [n \in {1} |-> created_doc(InitFolder, DocId, OldContent)]
  /\ vp = [p \in ApCallers |-> VpIdle]
  /\ InitLoop
  /\ InitDisp
  /\ sched = [pc |-> "idle", batch |-> <<>>, result |-> <<>>]
  /\ eb = [pc |-> "idle"]
  /\ ap = [calls |-> [p \in ApCallers |-> ApIdle], events |-> <<>>, started |-> 0,
           approved |-> FALSE]

\* Mutant of approval_return: the result of move_file is not looked at.
approval_return_unchecked(p, a, frames) ==
  ap' = [a EXCEPT
           !.calls = [frames EXCEPT ![p].pc = "returned", ![p].code = "",
                                    ![p].emitted = 1],
           !.events = Append(@, <<"approval:resolved", vp'[p].id, vp'[p].upd.status>>),
           !.approved = @ \/ frames[p].type = "approve"]

\* The end of _approve and _reject once move_file has returned (lines 254-287,
\* 307-342): None gives NOT_FOUND without an event; a file gives the
\* approval:resolved event and a success.
approval_return(p, a, frames) ==
  IF vp'[p].ret.kind = "None"
    THEN ap' = [a EXCEPT !.calls = [frames EXCEPT ![p].pc = "returned",
                                                  ![p].code = "NOT_FOUND"]]
    ELSE ap' = [a EXCEPT
                  !.calls = [frames EXCEPT ![p].pc = "returned", ![p].code = "",
                                           ![p].emitted = 1],
                  !.events = Append(@, <<"approval:resolved", vp'[p].id,
                                         vp'[p].upd.status>>),
                  !.approved = @ \/ frames[p].type = "approve"]

\* execute up to the first suspension of move_file (lines 138-158, 236-252,
\* 289-305): the task is routed by its type and the move is begun; when the
\* source does not exist move_file returns None at once.
execute(p, type, reason) ==
  /\ ap.calls[p].pc = "idle"
  /\ ap.started < MaxApprovalCalls
  /\ vp[p].pc = "idle"
  /\ LET busy == {q \in ApCallers \ {p} : ap.calls[q].pc \in {"moving", "probing"}}
         frames == [q \in ApCallers |->
                      IF q = p
                        THEN [ApIdle EXCEPT !.pc = "moving", !.type = type,
                                !.reason = reason, !.overlap = busy # {},
                                !.pending = visible("Pending_Approval", DocId),
                                !.after_approve = ap.approved]
                      ELSE IF q \in busy THEN [ap.calls[q] EXCEPT !.overlap = TRUE]
                      ELSE ap.calls[q]]
         a == [ap EXCEPT !.started = @ + 1] IN
     IF type = "get"
       THEN get_continue(p, 1, a, frames)
       ELSE /\ IF type = "approve"
                 THEN move_file(p, DocId, "Pending_Approval", "Approved", approve_patch)
                 ELSE move_file(p, DocId, "Pending_Approval", "Rejected",
                                reject_patch(reason))
            /\ IF vp'[p].pc = "done"
                 THEN approval_return(p, a, frames)
                 ELSE ap' = [a EXCEPT !.calls = frames]
  /\ UNCHANGED <<loopVars, dispVars, sched, eb>>

\* One suspension of move_file inside _approve or _reject; when move_file has
\* returned, the call runs to its return.
approval_move(p) ==
  /\ ap.calls[p].pc = "moving"
  /\ \/ move_file_open(p)
     \/ move_file_read(p)
     \/ write_atomic_async_open(p)
     \/ write_atomic_async_write(p)
     \/ write_atomic_async_close(p)
     \/ move_file_commit(p)
  /\ IF vp'[p].pc = "done"
       THEN approval_return(p, ap, ap.calls)
       ELSE UNCHANGED ap
  /\ UNCHANGED <<loopVars, dispVars, sched, eb>>

\* One suspension of read_file inside _get_approval (lines 380-386): a file
\* ends the call with success; None sends the loop to the next folder.
_get_approval(p) ==
  /\ ap.calls[p].pc = "probing"
  /\ LET rec == IF vp[p].pc = "rd_open" THEN read_file_opened(vp[p])
                ELSE read_file_result(vp[p]) IN
     IF rec.pc # "done"
       THEN /\ vault_step(p, rec, files, idata)
            /\ UNCHANGED ap
     ELSE IF rec.ret.kind = "VaultFile"
       THEN /\ vault_step(p, rec, files, idata)
            /\ ap' = [ap EXCEPT !.calls[p].pc = "returned", !.calls[p].code = ""]
     ELSE get_continue(p, ap.calls[p].probe + 1, ap, ap.calls)
  /\ UNCHANGED <<loopVars, dispVars, sched, eb>>

\* The caller has its result; the coroutine is free for another task.
execute_again(p) ==
  /\ ap.calls[p].pc = "returned"
  /\ ap' = [ap EXCEPT !.calls[p] = ApIdle]
  /\ vault_step(p, VpIdle, files, idata)
  /\ UNCHANGED <<loopVars, dispVars, sched, eb>>

(***************************************************************************)
(* Event bus: src/backend/src/core/mcp/events.py                           *)
(***************************************************************************)

\* Event names and patterns are strings: sequences of characters, here over
\* a three-letter alphabet that has the wildcard character.
MaxTopicLen == 2
Chars == {"a", "b", "*"}
Topics == UNION {[1..n -> Chars] : n \in 1..MaxTopicLen}

\* The handler functions that get registered.
MaxHandlers == 2
HandlerIds == 1..MaxHandlers

\* str.endswith("*") and str.startswith(prefix).
endswith_star(s) == Len(s) > 0 /\ s[Len(s)] = "*"
startswith(s, prefix) == Len(prefix) <= Len(s) /\ SubSeq(s, 1, Len(prefix)) = prefix

\* `pattern.endswith("*") and event.startswith(pattern[:-1])` (lines 118, 147).
wildcard_match(pattern, event) ==
  endswith_star(pattern) /\ startswith(event, SubSeq(pattern, 1, Len(pattern) - 1))

\* A handler dict, `dict[str, list]`, as its items in insertion order.
dict_get(d, event) ==
  IF \E i \in 1..Len(d) : d[i].event = event
    THEN d[CHOOSE i \in 1..Len(d) : d[i].event = event].handlers
    ELSE <<>>
dict_append(d, event, h) ==
  IF \E i \in 1..Len(d) : d[i].event = event
    THEN [i \in 1..Len(d) |->
            IF d[i].event = event THEN [d[i] EXCEPT !.handlers = Append(@, h)] ELSE d[i]]
    ELSE Append(d, [event |-> event, handlers |-> <<h>>])

\* The handlers one emit goes through, in order: those under the event's own
\* key, then those of every key that is a matching wildcard (lines 108-123,
\* 139-150).
RECURSIVE wildcard_handlers(_, _)
wildcard_handlers(d, event) ==
  IF d = <<>> THEN <<>>
  ELSE (IF wildcard_match(Head(d).event, event) THEN Head(d).handlers ELSE <<>>)
         \o wildcard_handlers(Tail(d), event)
emit_order(d, event) == dict_get(d, event) \o wildcard_handlers(d, event)

\* Mutant of handler_errors_caught: emit has no try/except around a handler.
handler_errors_uncaught == FALSE

\* `except Exception` around each handler call of emit (lines 111-114, 120-123).
handler_errors_caught == TRUE

EbIdle == [pc |-> "idle", call |-> "", event |-> <<>>, invoked |-> <<>>,
           tasks |-> <<>>, pending |-> {}, propagated |-> FALSE]

\* EventBus.__init__ (lines 66-68): no handlers.
InitEvents ==
  /\ files = [q \in {} |-> 0]
  /\ idata = <<>>
  /\ vp = [p \in {} |-> VpIdle]
  /\ InitLoop
  /\ InitDisp
  /\ sched = [pc |-> "idle", batch |-> <<>>, result |-> <<>>]
  /\ ap = [pc |-> "idle"]
  /\ eb = [_handlers |-> <<>>, _async_handlers |-> <<>>,
           raises |-> [h \in HandlerIds |-> FALSE], frame |-> EbIdle]

\* on(event, handler) (lines 70-85): a coroutine function goes to
\* _async_handlers, any other callable to _handlers.  `raises` says whether
\* the handler raises an Exception when it is called.
on(event, h, coroutine, raises) ==
  /\ eb.frame.pc = "idle"
  /\ \A i \in 1..Len(eb._handlers) :
       \A j \in 1..Len(eb._handlers[i].handlers) : eb._handlers[i].handlers[j] # h
  /\ \A i \in 1..Len(eb._async_handlers) :
       \A j \in 1..Len(eb._async_handlers[i].handlers) :
         eb._async_handlers[i].handlers[j] # h
  /\ eb' = [eb EXCEPT
              !._handlers = IF coroutine THEN @ ELSE dict_append(@, event, h),
              !._async_handlers = IF coroutine THEN dict_append(@, event, h) ELSE @,
              !.raises[h] = raises]
  /\ UNCHANGED <<vaultVars, loopVars, dispVars, sched, ap>>

\* The handler calls of emit (lines 108-123): each handler of the list is
\* called in turn; an exception that is not caught ends the emit.
RECURSIVE call_handlers(_)
call_handlers(hs) ==
  IF hs = <<>> THEN [invoked |-> <<>>, propagated |-> FALSE]
  ELSE IF eb.raises[Head(hs)] /\ ~handler_errors_caught
    THEN [invoked |-> <<Head(hs)>>, propagated |-> TRUE]
  ELSE LET r == call_handlers(Tail(hs)) IN
       [invoked |-> <<Head(hs)>> \o r.invoked, propagated |-> r.propagated]

\* emit(event, data) (lines 100-123) runs without suspension.
emit_call(event) ==
  /\ eb.frame.pc = "idle"
  /\ LET r == call_handlers(emit_order(eb._handlers, event)) IN
     eb' = [eb EXCEPT !.frame = [EbIdle EXCEPT !.pc = "returned", !.call = "emit",
                                   !.event = event, !.invoked = r.invoked,
                                   !.propagated = r.propagated]]
  /\ UNCHANGED <<vaultVars, loopVars, dispVars, sched, ap>>

\* emit_async(event, data) up to its suspension (lines 125-151): emit, then a
\* task for every async handler, then the gather when there is a task.
emit_async(event) ==
  /\ eb.frame.pc = "idle"
  /\ LET r == call_handlers(emit_order(eb._handlers, event))
         tasks == emit_order(eb._async_handlers, event)
         fr == [EbIdle EXCEPT !.call = "emit_async", !.event = event,
                              !.invoked = r.invoked, !.propagated = r.propagated] IN
     eb' = [eb EXCEPT !.frame =
              IF r.propagated \/ tasks = <<>>
                THEN [fr EXCEPT !.pc = "returned"]
                ELSE [fr EXCEPT !.pc = "gather", !.tasks = tasks,
                                !.pending = 1..Len(tasks)]]
  /\ UNCHANGED <<vaultVars, loopVars, dispVars, sched, ap>>

\* One task of the gather runs _safe_call_async (lines 153-158): the handler
\* is awaited and its exception caught.  With the last task the gather, which
\* has return_exceptions=True, returns and emit_async with it (lines 150-151).
_safe_call_async(k) ==
  /\ eb.frame.pc = "gather"
  /\ k \in eb.frame.pending
  /\ eb' = [eb EXCEPT !.frame.invoked = Append(@, eb.frame.tasks[k]),
                      !.frame.pending = @ \ {k},
                      !.frame.pc = IF eb.frame.pending = {k} THEN "returned" ELSE @]
  /\ UNCHANGED <<vaultVars, loopVars, dispVars, sched, ap>>

\* The emitter goes on after the call.
emit_again ==
  /\ eb.frame.pc = "returned"
  /\ eb' = [eb EXCEPT !.frame = EbIdle]
  /\ UNCHANGED <<vaultVars, loopVars, dispVars, sched, ap>>

(***************************************************************************)
(* Event bus with subscribers that call on and off from inside their own   *)
(* invocation: src/backend/src/core/mcp/events.py                          *)
(***************************************************************************)

\* What a subscriber does when it is called: return, unregister itself
\* (off(its event, itself)), or register the late handler under LateTopic;
\* and the number of on calls made from outside an emit.
HandlerActs == {"return", "off", "on"}
MaxOnCalls == 3
LateHandler == 0
LateTopic == <<"a", "*">>

\* The event names and patterns used here: those of one character.
ShortTopics == {t \in Topics : Len(t) = 1}

\* list.remove(handler) on the list under `event` (lines 95-96): the first
\* occurrence goes, the key stays.
dict_remove(d, event, h) ==
  [i \in 1..Len(d) |->
     IF d[i].event = event
       THEN [d[i] EXCEPT !.handlers = SelectSeq(@, LAMBDA x : x # h)]
       ELSE d[i]]

\* The key a handler is registered under.
key_of(d, h) ==
  d[CHOOSE i \in 1..Len(d) : \E j \in 1..Len(d[i].handlers) : d[i].handlers[j] = h].event

is_registered(d, h) ==
  \E i \in 1..Len(d) : \E j \in 1..Len(d[i].handlers) : d[i].handlers[j] = h

\* _handlers after handler h has run.
handler_runs(d, acts, h) ==
  IF h = LateHandler \/ acts[h] = "return" THEN d
  ELSE IF acts[h] = "off" THEN dict_remove(d, key_of(d, h), h)
  ELSE IF is_registered(d, LateHandler) THEN d
  ELSE dict_append(d, LateTopic, LateHandler)

\* `for handler in self._handlers[key]` (lines 110, 119): the list iterator
\* holds an index into the list object and reads the list as it is at each
\* step.
RECURSIVE list_loop(_, _, _, _, _)
list_loop(d, acts, key, i, invoked) ==
  LET hs == dict_get(d, key) IN
  IF i > Len(hs) THEN [d |-> d, invoked |-> invoked]
  ELSE list_loop(handler_runs(d, acts, hs[i]), acts, key, i + 1, Append(invoked, hs[i]))

\* The test a dict iterator makes at every step, the one after the last item
\* included: RuntimeError("dictionary changed size during iteration").
dict_changed_size(d, used) == Len(d) # used

\* `for pattern, handlers in self._handlers.items()` (lines 117-123); `used`
\* is the size of the dict when the iterator was made.  The RuntimeError is
\* raised outside the try and leaves emit.
RECURSIVE items_loop(_, _, _, _, _, _)
items_loop(d, acts, event, k, used, invoked) ==
  IF dict_changed_size(d, used) THEN [d |-> d, invoked |-> invoked, raised |-> TRUE]
  ELSE IF k > Len(d) THEN [d |-> d, invoked |-> invoked, raised |-> FALSE]
  ELSE IF wildcard_match(d[k].event, event)
    THEN LET r == list_loop(d, acts, d[k].event, 1, invoked) IN
         items_loop(r.d, acts, event, k + 1, used, r.invoked)
  ELSE items_loop(d, acts, event, k + 1, used, invoked)

HbIdle == [pc |-> "idle", event |-> <<>>, began |-> <<>>, invoked |-> <<>>,
           raised |-> FALSE]

\* EventBus.__init__ (lines 66-68).
InitHandlers ==
  /\ files = [q \in {} |-> 0]
  /\ idata = <<>>
  /\ vp = [p \in {} |-> VpIdle]
  /\ InitLoop
  /\ InitDisp
  /\ sched = [pc |-> "idle"]
  /\ ap = [pc |-> "idle"]
  /\ eb = [_handlers |-> <<>>, acts |-> [h \in HandlerIds |-> "return"], frame |-> HbIdle,
           on_calls |-> 0]

\* on(event, handler) for a plain function that acts as `act` when called
\* (lines 82-85).
on_handler(event, h, act) ==
  /\ eb.frame.pc = "idle"
  /\ eb.on_calls < MaxOnCalls
  /\ ~is_registered(eb._handlers, h)
  /\ eb' = [eb EXCEPT !._handlers = dict_append(@, event, h), !.acts[h] = act,
                      !.on_calls = @ + 1]
  /\ UNCHANGED <<vaultVars, loopVars, dispVars, sched, ap>>

\* emit(event, data) (lines 100-123) with the calls its handlers make to on
\* and off; `began` keeps the handlers registered and matching when the emit
\* began.
emit_handlers(event) ==
  /\ eb.frame.pc = "idle"
  /\ LET d == eb._handlers
         exact == list_loop(d, eb.acts, event, 1, <<>>)
         r == items_loop(exact.d, eb.acts, event, 1, Len(exact.d), exact.invoked) IN
     eb' = [eb EXCEPT !._handlers = r.d,
                      !.frame = [pc |-> "returned", event |-> event,
                                 began |-> emit_order(d, event),
                                 invoked |-> r.invoked, raised |-> r.raised]]
  /\ UNCHANGED <<vaultVars, loopVars, dispVars, sched, ap>>

\* The emitter goes on after the call (or after the exception).
emit_handlers_again ==
  /\ eb.frame.pc = "returned"
  /\ eb' = [eb EXCEPT !.frame = HbIdle]
  /\ UNCHANGED <<vaultVars, loopVars, dispVars, sched, ap>>
(***************************************************************************)
(* Specification of the loop: the lifecycle API called in any order, the   *)
(* drivers it creates, their cycles over the documents of Needs_Action,    *)
(* and the subtasks with their retries and their moves to Done.            *)
(***************************************************************************)

InitLoopSpec ==
  /\ files = [q \in {json_path("Needs_Action", id) : id \in TaskIds} |->
                CHOOSE i \in 1..Len(TaskOrder) : json_path("Needs_Action", TaskOrder[i]) = q]
  /\ idata = [n \in 1..Len(TaskOrder) |->
                created_doc("Needs_Action", TaskOrder[n], task_document(TaskOrder[n]))]
  /\ vp = [p \in LoopProcs |-> VpIdle]
  /\ InitLoop
  /\ InitDisp
  /\ InitExt

ApiNext == start \/ pause \/ resume \/ stop \/ stop_joined \/ stop_timed_out

DriverNext ==
  \E d \in DriverIds :
    \/ _run_loop(d)
    \/ _run_loop_resumed(d)
    \/ _scan_for_tasks(d)
    \/ run_cycle_join(d)
    \/ run_cycle_end(d)

ExecNext ==
  \E e \in ExecIds :
    \/ _execute_task(e)
    \/ \E o \in WorkerOutcomes : _execute_with_retry(e, o)
    \/ retry_backoff(e)
    \/ execute_task_move(e)

NextLoop == ApiNext \/ DriverNext \/ ExecNext

SpecLoop == InitLoopSpec /\ [][NextLoop]_vars

(***************************************************************************)
(* Specification of a loop that is started once and left running, over     *)
(* documents of every kind a producer can leave in Needs_Action, with the  *)
(* Scheduler of scheduler.py or with a scheduler that raises.              *)
(***************************************************************************)

\* What <id>.json can hold: a task document, one whose "id" is not the file's
\* name, one whose priority is no Priority, or bytes that are no JSON.
RunDocuments(id) ==
  LET doc == [id |-> id, type |-> "calendar:fetch", status |-> "queued",
              priority |-> IF id = "t1" THEN "medium" ELSE "low"] IN
  {FileOk(stamp_folder(c, "Needs_Action")) :
     c \in {doc, [doc EXCEPT !.id = "x" \o id], [doc EXCEPT !.priority = "urgent"]}}
    \cup {FileCorrupt}

InitRun ==
  /\ files = [q \in {json_path("Needs_Action", id) : id \in TaskIds} |->
                CHOOSE i \in 1..Len(TaskOrder) : json_path("Needs_Action", TaskOrder[i]) = q]
  /\ idata \in [1..Len(TaskOrder) -> UNION {RunDocuments(id) : id \in TaskIds}]
  /\ \A n \in 1..Len(TaskOrder) : idata[n] \in RunDocuments(TaskOrder[n])
  /\ vp = [p \in LoopProcs |-> VpIdle]
  /\ InitLoop
  /\ InitDisp
  /\ \E raises \in BOOLEAN :
       sched = [pc |-> "idle", batch |-> <<>>, result |-> <<>>, raises |-> raises]
  /\ ap = [pc |-> "idle"]
  /\ eb = [pc |-> "idle"]

\* The tasks handed to enqueue_task, and the longest pending_tasks a call is
\* made on.
EnqueueIds == {"e1"}
MaxPending == 2

\* enqueue_task(task) (lines 607-620): the task is appended to
\* state.pending_tasks and task:queued is emitted.
enqueue_task(id) ==
  /\ Len(state.pending_tasks) < MaxPending
  /\ state' = [state EXCEPT !.pending_tasks =
                  Append(@, [id |-> id, type |-> "calendar:fetch", priority |-> "high"])]
  /\ bus' = emit(bus, "task:queued", id)
  /\ UNCHANGED <<vaultVars, stop_event, pause_event, loop_task, drv, ex, ctl>>
  /\ UNCHANGED <<dispVars, extVars>>

NextRun ==
  \/ start
  \/ \E id \in EnqueueIds : enqueue_task(id)
  \/ \E d \in DriverIds : _run_loop(d)
  \/ \E d \in DriverIds : _scan_for_tasks(d)
  \/ \E d \in DriverIds : run_cycle_join(d)
  \/ \E d \in DriverIds : run_cycle_end(d)
  \/ \E e \in ExecIds : _execute_task(e)
  \/ \E e \in ExecIds, o \in WorkerOutcomes : _execute_with_retry(e, o)
  \/ \E e \in ExecIds : retry_backoff(e)
  \/ \E e \in ExecIds : execute_task_move(e)

SpecRun == InitRun /\ [][NextRun]_vars

(***************************************************************************)
(* Specification of the loop with a dispatcher: set_dispatcher has been    *)
(* called, and every subtask of a cycle asks the dispatcher for its        *)
(* worker (loop.py lines 148-150, 427-434, 482-485).                       *)
(***************************************************************************)

\* The largest config.max_concurrent_tasks tried, and the most tasks a scan
\* finds.
MaxConcurrent == 2
MaxScanned == 3

\* sched holds the cycle: the configured max_concurrent_tasks, the subtasks
\* created and not yet begun, for every worker the number of execute calls
\* the loop is awaiting on it, and the number of calls that have returned in
\* the cycle.
InitLoad ==
  /\ files = [q \in {} |-> 0]
  /\ idata = <<>>
  /\ vp = [p \in {} |-> VpIdle]
  /\ InitLoop
  /\ InitDisp
  /\ \E c \in 1..MaxConcurrent :
       sched = [pc |-> "idle", max_concurrent_tasks |-> c, created |-> 0,
                running |-> [w \in WorkerNames |-> 0], returned |-> 0,
                cycles |-> 0]
  /\ ap = [pc |-> "idle"]
  /\ eb = [pc |-> "idle"]

\* _run_cycle from the scan to the TaskGroup (lines 302-322): n tasks of a
\* type the workers handle are found; the first max_concurrent_tasks of them
\* get a subtask each.
run_cycle_create(n) ==
  /\ sched.pc = "idle"
  /\ sched.cycles < MaxCycles
  /\ sched' = [sched EXCEPT !.pc = "executing", !.cycles = @ + 1, !.returned = 0,
                            !.created = Min(n, sched.max_concurrent_tasks)]
  /\ UNCHANGED <<vaultVars, loopVars, dispVars, ap, eb>>

\* _execute_task up to the await of the worker (lines 427-434, 482-485, 508-
\* 516): _find_agent_for_task returns dispatcher.find_agent(task) and the
\* loop calls the worker itself; None fails the task.  The dispatcher's
\* statistics are not touched.
execute_task_begin ==
  /\ sched.pc = "executing"
  /\ sched.created > 0
  /\ LET agent == find_agent("calendar:fetch") IN
     sched' = [sched EXCEPT !.created = @ - 1,
                 !.running = IF agent = "" THEN @
                             ELSE [@ EXCEPT ![agent] = @ + 1]]
  /\ UNCHANGED <<vaultVars, loopVars, dispVars, ap, eb>>

\* The worker's execute returns to _execute_with_retry (lines 508-525).
execute_task_end(w) ==
  /\ sched.running[w] > 0
  /\ sched' = [sched EXCEPT !.running[w] = @ - 1, !.returned = @ + 1]
  /\ UNCHANGED <<vaultVars, loopVars, dispVars, ap, eb>>

\* The TaskGroup has joined every subtask (lines 319-329).
run_cycle_joined ==
  /\ sched.pc = "executing"
  /\ sched.created = 0
  /\ \A w \in WorkerNames : sched.running[w] = 0
  /\ sched' = [sched EXCEPT !.pc = "idle"]
  /\ UNCHANGED <<vaultVars, loopVars, dispVars, ap, eb>>

NextLoad ==
  \/ \E name \in WorkerNames : register_agent(name)
  \/ \E n \in 1..MaxScanned : run_cycle_create(n)
  \/ execute_task_begin
  \/ \E w \in WorkerNames : execute_task_end(w)
  \/ run_cycle_joined

SpecLoad == InitLoad /\ [][NextLoad]_vars
(***************************************************************************)
(* Specification of the dispatcher: workers are registered and             *)
(* unregistered while dispatch_task calls and a health refresh are in      *)
(* flight.                                                                 *)
(***************************************************************************)

InitDispSpec ==
  /\ files = [q \in {} |-> 0]
  /\ idata = <<>>
  /\ vp = [p \in {} |-> VpIdle]
  /\ InitLoop
  /\ InitDisp
  /\ InitExt

NextDisp ==
  \/ \E name \in WorkerNames : register_agent(name)
  \/ \E name \in WorkerNames : unregister_agent(name)
  \/ \E p \in DispFrames, t \in TaskTypes : dispatch_task(p, t)
  \/ \E p \in DispFrames, o \in {"success", "failure", "raise"}, ms \in ExecutionTimes :
       dispatch_task_return(p, o, ms)
  \/ refresh_health
  \/ \E healthy \in BOOLEAN : refresh_health_checked(healthy)

SpecDisp == InitDispSpec /\ [][NextDisp]_vars

(***************************************************************************)
(* Specification of the scheduler: prioritize_tasks is called on a batch   *)
(* of tasks of any priorities and ages, in any order.                      *)
(***************************************************************************)

\* The longest batch, and the ages in ms (now - created_at) of its tasks.
MaxBatch == 3
SchedAges == {0, 60000, 61000, 500000}

\* The batches: AgentTask objects (agent.py lines 110-135) with their age.
Batches ==
  UNION {{[i \in 1..n |-> [id |-> <<"t1", "t2", "t3", "t4">>[i], type |-> "calendar:fetch",
                            priority |-> ps[i], age_ms |-> as[i]]] :
            ps \in [1..n -> Priority], as \in [1..n -> SchedAges]} : n \in 0..MaxBatch}

InitSched ==
  /\ files = [q \in {} |-> 0]
  /\ idata = <<>>
  /\ vp = [p \in {} |-> VpIdle]
  /\ InitLoop
  /\ InitDisp
  /\ ap = [pc |-> "idle"]
  /\ eb = [pc |-> "idle"]
  /\ \E b \in Batches : sched = [pc |-> "called", batch |-> b, result |-> <<>>]

\* The call returns the sorted batch (scheduler.py lines 65-95).
prioritize_tasks_call ==
  /\ sched.pc = "called"
  /\ sched' = [sched EXCEPT !.pc = "returned", !.result = prioritize_tasks(sched.batch)]
  /\ UNCHANGED <<vaultVars, loopVars, dispVars, ap, eb>>

SpecSched == InitSched /\ [][prioritize_tasks_call]_vars

(***************************************************************************)
(* Specification of the loop's cycles over a long run: documents arrive in *)
(* Needs_Action, every cycle parses the folder anew, prioritises and runs  *)
(* the first max_concurrent_tasks tasks.  The cycles are not bounded; the   *)
(* loop runs them as long as it is not stopped (loop.py lines 260-281).     *)
(***************************************************************************)

\* The documents that can be in Needs_Action, in the order of the listing.
MaxQueue == 3
QueueOrder == SubSeq(<<"t1", "t2", "t3", "t4">>, 1, MaxQueue)
QueueIds == {QueueOrder[i] : i \in 1..MaxQueue}

\* The time in ms between the parse of a document and the scoring of its
\* task in the same cycle (the rest of the scan).
ScanAges == {0, 1000}

\* The content of a task document; created_at is when it was written.
queued_document(id, priority) ==
  [id |-> id, type |-> "calendar:fetch", priority |-> priority, created_at |-> "written"]

InitCycles ==
  /\ files = [q \in {} |-> 0]
  /\ idata = <<>>
  /\ vp = [p \in {} |-> VpIdle]
  /\ InitLoop
  /\ InitDisp
  /\ ap = [pc |-> "idle"]
  /\ eb = [pc |-> "idle"]
  /\ sched = [pc |-> "idle", docs |-> [id \in QueueIds |-> "none"],
              batch |-> <<>>, result |-> <<>>]

\* A producer writes a task document into Needs_Action between two cycles.
document_arrives(id, priority) ==
  /\ sched.pc = "idle"
  /\ sched.docs[id] = "none"
  /\ sched' = [sched EXCEPT !.docs[id] = priority]
  /\ UNCHANGED <<vaultVars, loopVars, dispVars, ap, eb>>

\* The tasks of one scan (loop.py lines 366-386): every document of the
\* listing is parsed by _parse_task_from_file, which passes no created_at, so
\* that AgentTask takes created_at = datetime.now() (agent.py line 133); at
\* the scoring the task is `age` ms old whatever its document's age.
RECURSIVE scanned_tasks(_, _)
scanned_tasks(todo, age) ==
  IF todo = <<>> THEN <<>>
  ELSE IF sched.docs[Head(todo)] = "none" THEN scanned_tasks(Tail(todo), age)
  ELSE LET parsed == _parse_task_from_file(
                       queued_document(Head(todo), sched.docs[Head(todo)]), Head(todo)) IN
       [i \in 1..Len(parsed) |->
          [id |-> parsed[i].id, type |-> parsed[i].type,
           priority |-> parsed[i].priority, age_ms |-> age]]
         \o scanned_tasks(Tail(todo), age)

\* _run_cycle, phases 1 and 2 (loop.py lines 302-313): scan and prioritise.
run_cycle_prioritize(age) ==
  /\ sched.pc = "idle"
  /\ LET tasks == scanned_tasks(QueueOrder, age) IN
     sched' = [sched EXCEPT !.pc = "executing", !.batch = tasks,
                            !.result = prioritize_tasks(tasks)]
  /\ UNCHANGED <<vaultVars, loopVars, dispVars, ap, eb>>

\* _run_cycle, phases 3 and 4 (loop.py lines 315-326): the first
\* max_concurrent_tasks tasks run; the documents of those in `succeeded` move
\* to Done (lines 436-443), the others stay in Needs_Action.
run_cycle_execute(succeeded) ==
  /\ sched.pc = "executing"
  /\ LET run == tasks_to_execute(sched.result) IN
     /\ succeeded \subseteq {run[i].id : i \in 1..Len(run)}
     /\ sched' = [sched EXCEPT !.pc = "idle",
                    !.docs = [id \in QueueIds |->
                                IF id \in succeeded THEN "none" ELSE sched.docs[id]]]
  /\ UNCHANGED <<vaultVars, loopVars, dispVars, ap, eb>>

NextCycles ==
  \/ \E id \in QueueIds, priority \in {"low", "medium", "high"} :
       document_arrives(id, priority)
  \/ \E age \in ScanAges : run_cycle_prioritize(age)
  \/ \E succeeded \in SUBSET QueueIds : run_cycle_execute(succeeded)

\* The started loop goes on running cycles (`while not stop_event.is_set()`,
\* lines 260-281); nothing is assumed about the arrivals.
SpecCycles ==
  /\ InitCycles
  /\ [][NextCycles]_vars
  /\ WF_sched(\E age \in ScanAges : run_cycle_prioritize(age))
  /\ WF_sched(\E succeeded \in SUBSET QueueIds : run_cycle_execute(succeeded))

(***************************************************************************)
(* Specification of the approval workflow: one approval request created    *)
(* in Pending_Approval, and approve and reject tasks run by two coroutines. *)
(***************************************************************************)

NextApproval ==
  \/ \E p \in ApCallers : execute(p, "approve", "None")
  \/ \E p \in ApCallers, reason \in Reasons : execute(p, "reject", reason)
  \/ \E p \in ApCallers : execute(p, "get", "None")
  \/ \E p \in ApCallers : approval_move(p)
  \/ \E p \in ApCallers : _get_approval(p)
  \/ \E p \in ApCallers : execute_again(p)

SpecApproval == InitApproval /\ [][NextApproval]_vars

(***************************************************************************)
(* Specification of the event bus: handlers are registered under any       *)
(* names and patterns, and events of any name are emitted.                 *)
(***************************************************************************)

NextEvents ==
  \/ \E event \in Topics, h \in HandlerIds, coroutine \in BOOLEAN, raises \in BOOLEAN :
       on(event, h, coroutine, raises)
  \/ \E event \in Topics : emit_call(event)
  \/ \E event \in Topics : emit_async(event)
  \/ \E k \in 1..(2 * MaxHandlers) : _safe_call_async(k)
  \/ emit_again

SpecEvents == InitEvents /\ [][NextEvents]_vars

(***************************************************************************)
(* Specification of the event bus with subscribers that register and       *)
(* unregister during an emit.                                              *)
(***************************************************************************)

NextHandlers ==
  \/ \E event \in ShortTopics, h \in HandlerIds, act \in HandlerActs : on_handler(event, h, act)
  \/ \E event \in ShortTopics : emit_handlers(event)
  \/ emit_handlers_again

SpecHandlers == InitHandlers /\ [][NextHandlers]_vars
(***************************************************************************)
(* Claims about the vault                                                  *)
(***************************************************************************)

\* The folders that hold a copy of the document (a directory entry <id>.json).
copies(id) == {f \in VaultFolder : path_exists(json_path(f, id))}

other_mover(m) == CHOOSE o \in VaultMovers : o # m

\* m is the only move_file call so far, and it moves the document from the
\* folder that holds it to a different folder.
single_move(m) ==
  /\ vp[m].op = "move"
  /\ vp[other_mover(m)].op = ""
  /\ vp[m].src = InitFolder
  /\ vp[m].dst # vp[m].src

patched(m) == dict_update(OldContent, vp[m].upd)

\* C1: atomic move.  While one move_file(id, A, B) between two different
\* folders is interleaved with readers, at every instant the document is
\* readable in exactly one of A and B, never in neither and never in both; at A
\* it has its old content, at B the patched content with folder metadata B,
\* and whatever read_file has returned is one of these two documents.
C1_AtomicMove ==
  \A m \in VaultMovers :
    single_move(m) =>
      LET A == vp[m].src
          B == vp[m].dst IN
      /\ visible(A, DocId) # visible(B, DocId)
      /\ copies(DocId) \in {{A}, {B}}
      /\ visible(A, DocId) =>
           doc_at(json_path(A, DocId)) = created_doc(A, DocId, OldContent)
      /\ visible(B, DocId) =>
           doc_at(json_path(B, DocId)) = created_doc(B, DocId, patched(m))
      /\ \A r \in VaultReaders :
           vp[r].ret.kind = "VaultFile" =>
             \/ vp[r].ret = RetFile(A, OldContent)
             \/ vp[r].ret = RetFile(B, patched(m))

\* C1 witness: a reader has read the patched document at B after the single
\* move, which returned the file.
C1_Witness ==
  \E m \in VaultMovers, r \in VaultReaders :
    /\ single_move(m)
    /\ vp[m].upd # EmptyDict
    /\ vp[m].ret.kind = "VaultFile"
    /\ vp[r].ret = RetFile(vp[m].dst, patched(m))

\* C2: whenever move_file(id, from, to, patch) has returned a file, for any
\* folders from and to, exactly one copy of the document exists, it is at `to`,
\* and it holds the source content merged with patch, with folder metadata `to`
\* (stated for a move that ran alone, right up to its return).
C2_MoveLeavesOneCopyAtTo ==
  \A m \in VaultMovers :
    ( /\ vp[m].ret.kind = "VaultFile"
      /\ vp[other_mover(m)].op = "" ) =>
      /\ copies(DocId) = {vp[m].dst}
      /\ doc_at(json_path(vp[m].dst, DocId)) =
           created_doc(vp[m].dst, DocId, patched(m))

\* Both movers were asked to move the document out of the folder that holds
\* it, each to a folder other than that one, and both calls have returned.
both_moved ==
  \A m \in VaultMovers :
    /\ vp[m].op = "move"
    /\ vp[m].pc = "done"
    /\ vp[m].src = InitFolder
    /\ vp[m].dst # vp[m].src

\* C3: of two move_file calls on the same id from the same source folder,
\* interleaved at their suspension points in any way, exactly one returns a
\* file and the other returns None.
C3_OneMoveWins ==
  both_moved =>
    \E m \in VaultMovers :
      /\ vp[m].ret.kind = "VaultFile"
      /\ vp[other_mover(m)].ret.kind = "None"

\* C3 witness: both calls ran concurrently (the loser had already read the
\* source when the winner removed it) and one won.
C3_Witness ==
  /\ both_moved
  /\ \E m \in VaultMovers :
       /\ vp[m].ret.kind = "VaultFile"
       /\ vp[other_mover(m)].ret.kind = "None"
       /\ vp[other_mover(m)].content # EmptyDict

(***************************************************************************)
(* Claims about the loop, checked under SpecLoop.                          *)
(***************************************************************************)

\* C4: in every reachable state of the loop, whatever the order of start,
\* pause, resume, stop and cycles, the tasks_in_flight field of the loop
\* state is at most max_concurrent_tasks.
C4_ConcurrencyBound == state.tasks_in_flight <= max_concurrent_tasks

\* The bound is met while more tasks than the bound were found: a subtask is
\* inside a worker call and the rest of the scan waits in pending_tasks.
C4_Witness ==
  /\ state.tasks_in_flight = max_concurrent_tasks
  /\ state.pending_tasks # <<>>
  /\ \E e \in ExecIds : ex[e].pc = "attempt"

drivers_alive == {d \in DriverIds : ~drv_done(d)}
cycles_in_progress == {d \in DriverIds : drv[d].pc \in {"scan", "exec", "update"}}

\* C5: for any sequence of start, pause, resume and stop calls, at most one
\* driver task exists and at most one cycle is in progress at any time.
C5_SingleSerialDriver ==
  /\ Cardinality(drivers_alive) <= 1
  /\ Cardinality(cycles_in_progress) <= 1

\* C6: one run of _execute_with_retry calls the worker's execute at most
\* retry_attempts times, whatever the worker does.
C6_RetryBound == \A e \in ExecIds : ex[e].calls <= retry_attempts

\* A run that used every attempt and gave up.
C6_Witness ==
  \E e \in ExecIds :
    /\ ex[e].pc = "returned"
    /\ ex[e].calls = retry_attempts
    /\ ex[e].result.code = "RETRY_EXHAUSTED"

\* The status each lifecycle event announces, and the edges of the status
\* state machine between two announced statuses.
status_step(a, b) ==
  \/ a = "task:queued" /\ b = "task:started"
  \/ a = "task:started" /\ b \in {"task:completed", "task:failed"}

is_status_path(s) == \A i \in 1..(Len(s) - 1) : status_step(s[i], s[i + 1])

\* C7: for every task id, the lifecycle events seen on the event bus over the
\* whole run form a path of the status state machine; no event of a task
\* follows its task:completed or task:failed.
C7_EventsFollowStatusMachine == \A id \in TaskIds : is_status_path(bus[id])

ExecutionOutcomes ==
  {<<"task:started", "task:completed">>, <<"task:started", "task:failed">>}

is_prefix(s, t) == Len(s) <= Len(t) /\ \A i \in 1..Len(s) : s[i] = t[i]

execution_over(e) == ex[e].pc \in {"returned", "cancelled"}

\* C8 as stated: each execution emits task:started first, and then exactly
\* one of task:completed and task:failed by the time it is over.
C8_StartedThenExactlyOne ==
  \A e \in ExecIds :
    /\ \E t \in ExecutionOutcomes : is_prefix(ex[e].ev, t)
    /\ execution_over(e) => ex[e].ev \in ExecutionOutcomes

\* C8, amended: each execution emits task:started first and at most one of
\* task:completed and task:failed after it; exactly one when _execute_task
\* returns, and none when the execution is hard-cancelled by stop().
C8_StartedThenAtMostOne ==
  \A e \in ExecIds :
    /\ \E t \in ExecutionOutcomes : is_prefix(ex[e].ev, t)
    /\ ex[e].pc = "returned" => ex[e].ev \in ExecutionOutcomes
    /\ ex[e].pc = "cancelled" => ex[e].ev = <<"task:started">>

\* stop() has hard-cancelled an execution after its task:started, with a
\* single driver, and has returned.
C8_Witness ==
  /\ state.status = "stopped"
  /\ ctl = "idle"
  /\ Cardinality({d \in DriverIds : drv[d].pc # "none"}) = 1
  /\ \E e \in ExecIds : ex[e].pc = "cancelled" /\ ex[e].ev = <<"task:started">>

\* The document of a task is in Done with the patch of the move, and is no
\* longer in Needs_Action.
moved_to_done(id) ==
  /\ visible("Done", id)
  /\ {"result", "completed_at"} \subseteq DOMAIN doc_at(json_path("Done", id)).d
  /\ ~path_exists(json_path("Needs_Action", id))

\* The execution has returned the worker's success.
succeeded(e) == ex[e].pc = "returned" /\ ex[e].result.success

\* C11: when a task document of Needs_Action is executed in a cycle and its
\* worker returns success, then from the return of the execution to the end
\* of the cycle the document is in Done, patched with result and
\* completed_at, and not in Needs_Action, and the execution has emitted
\* task:started and then task:completed.
C11_SuccessMovesToDone ==
  \A e \in ExecIds :
    succeeded(e) =>
      /\ moved_to_done(ex[e].task.id)
      /\ ex[e].ev = <<"task:started", "task:completed">>

\* The execution has returned a failure.
failed(e) == ex[e].pc = "returned" /\ ~ex[e].result.success

\* The document of a task as the producer created it in Needs_Action.
untouched(id) ==
  /\ path_exists(json_path("Needs_Action", id))
  /\ doc_at(json_path("Needs_Action", id)) = created_doc("Needs_Action", id, task_document(id))

\* C12: a task whose execution fails in a cycle (non-recoverable error,
\* RETRY_EXHAUSTED or no agent) stays in Needs_Action with its document
\* unchanged, and the step in which the execution fails changes no file and
\* adds one to failed_tasks; being left in Needs_Action, the task is scanned
\* again by every later cycle.
C12_FailedStaysInNeedsAction ==
  /\ [](\A e \in ExecIds : failed(e) => untouched(ex[e].task.id))
  /\ [][\A e \in ExecIds :
          (~failed(e) /\ failed(e)') =>
             /\ files' = files
             /\ state'.failed_tasks = state.failed_tasks + 1]_vars


exhausted(e) == ex[e].pc = "returned" /\ ex[e].result.code = "RETRY_EXHAUSTED"

\* C13: an execution whose attempts all ended in a recoverable failure, a
\* timeout or an exception has called the worker exactly retry_attempts times
\* and returned the failure RETRY_EXHAUSTED, not recoverable, with the last
\* error in its message; it has emitted task:started and then one task:failed
\* whose error is RETRY_EXHAUSTED, and its document is not in Done.
C13_RetryExhausted ==
  \A e \in ExecIds :
    exhausted(e) =>
      /\ ex[e].calls = retry_attempts
      /\ ~ex[e].result.success /\ ~ex[e].result.recoverable
      /\ ex[e].result.message =
           "Failed after " \o ToString(retry_attempts) \o " attempts: " \o ex[e].last_error
      /\ ex[e].last_error \in {error_message(o) : o \in WorkerOutcomes \ {"success", "fatal"}}
      /\ ex[e].ev = <<"task:started", "task:failed">>
      /\ ex[e].ev_error = "RETRY_EXHAUSTED"
      /\ ~path_exists(json_path("Done", ex[e].task.id))

fatal_returned(e) == ex[e].pc = "returned" /\ ex[e].result.code = ResultFatal.code

\* C14: a failure that is not recoverable is returned as the worker gave it,
\* with no further worker call and no backoff sleep after it: the execution
\* has made one call per attempt begun and slept only before the attempts it
\* made (one call and no sleep when the first attempt failed), its
\* task:failed carries the error's code, and a non-recoverable error never
\* becomes the cause of a retry.
C14_FatalReturnedAtOnce ==
  \A e \in ExecIds :
    /\ ex[e].last_error # ResultFatal.message
    /\ fatal_returned(e) =>
         /\ ex[e].result = ResultFatal
         /\ ex[e].calls = ex[e].attempt + 1
         /\ ex[e].calls <= retry_attempts
         /\ ex[e].backoff_ms = retry_backoff_ms * (2 ^ ex[e].attempt)
         /\ ex[e].ev = <<"task:started", "task:failed">>
         /\ ex[e].ev_error = ResultFatal.code

\* A non-recoverable failure in the first attempt: one worker call.
C14_Witness ==
  \E e \in ExecIds : fatal_returned(e) /\ ex[e].attempt = 0 /\ ex[e].calls = 1

Max(a, b) == IF a >= b THEN a ELSE b

sleeping(e) == ex[e].pc = "backoff"

\* C15: the sleep after the failed attempt k (counted from 1) and before
\* attempt k + 1 lasts retry_backoff_ms * 2^(k-1) ms, or the failed attempt's
\* retry_after when that is present and larger; after the last attempt
\* there is no sleep.
C15_BackoffDuration ==
  \A e \in ExecIds :
    sleeping(e) =>
      /\ ex[e].attempt < retry_attempts - 1
      /\ backoff_sleep_ms(e) =
           Max(retry_backoff_ms * (2 ^ ex[e].attempt), ex[e].retry_after)

in_progress(e) == ex[e].pc \in {"created", "attempt", "backoff", "moving"}

exec_step(e) ==
  \/ _execute_task(e)
  \/ \E o \in WorkerOutcomes : _execute_with_retry(e, o)
  \/ retry_backoff(e)
  \/ execute_task_move(e)

move_rank(pc) ==
  CASE pc = "mv_open" -> 6 [] pc = "mv_read" -> 5 [] pc = "wa_open" -> 4
    [] pc = "wa_write" -> 3 [] pc = "wa_close" -> 2 [] pc = "wa_replace" -> 1
    [] OTHER -> 0

\* The number of steps an execution can still take, at most.
exec_rank(x, v) ==
  CASE x.pc = "created" -> 2 * retry_attempts + 8
    [] x.pc = "attempt" -> 2 * (retry_attempts - x.attempt) + 7
    [] x.pc = "backoff" -> 2 * (retry_attempts - x.attempt) + 6
    [] x.pc = "moving" -> move_rank(v.pc)
    [] OTHER -> 0

\* C16: whatever the worker does in an attempt (return, raise, or run into
\* the timeout), the retry executor ends and returns a result: an execution
\* in progress can always take its next step, each of its steps lowers a
\* bounded count of the steps left, and it ends returned with a result that
\* is the executor's (never the EXECUTION_ERROR of an exception that left the
\* executor, which only a missing agent produces), so that nothing is raised
\* into the cycle.
C16_ExecutorTerminates ==
  /\ [](\A e \in ExecIds :
          /\ in_progress(e) => ENABLED exec_step(e)
          /\ ex[e].pc = "returned" =>
                /\ ex[e].result # NoResult
                /\ ex[e].result.code = "EXECUTION_ERROR"
                     <=> _find_agent_for_task(ex[e].task) = 0)
  /\ [][\A e \in ExecIds :
          (in_progress(e) /\ <<ex[e], vp[e]>>' # <<ex[e], vp[e]>>) =>
             /\ ex'[e].pc \in {"attempt", "backoff", "moving", "returned", "cancelled"}
             /\ exec_rank(ex'[e], vp'[e]) < exec_rank(ex[e], vp[e])]_vars

\* An execution returned RETRY_EXHAUSTED after a worker that raised and a
\* worker that ran into the timeout.
C16_Witness ==
  \E e \in ExecIds :
    /\ exhausted(e)
    /\ ex[e].last_error \in {error_message("raise"), error_message("timeout")}

\* C17: a call of start() takes effect (creates a driver, changes the loop
\* state) only when the status is stopped; while the loop is running or
\* paused no step of start() happens.
C17_StartOnlyWhenStopped == [][start => state.status = "stopped"]_vars

\* C18: while the loop stays paused (from pause() until resume() is
\* called) no new cycle starts: cycle_number does not increase in a step that
\* begins and ends with the status paused.
C18_NoCycleWhilePaused ==
  [][(state.status = "paused" /\ state'.status = "paused")
       => state'.cycle_number = state.cycle_number]_vars

stop_returns == ctl = "stopping" /\ ctl' = "idle"

driver_step(d) ==
  \/ _run_loop(d) \/ _run_loop_resumed(d) \/ _scan_for_tasks(d)
  \/ run_cycle_join(d) \/ run_cycle_end(d)
  \/ \E k \in Slots : exec_step(ex_pid(d, k))

\* C19: a call of stop() can always go on to its return (the awaited driver
\* can step, or the join is over or can time out); it returns with status
\* stopped and phase idle; and from its return until the next start() no
\* cycle starts and no worker call is made.
C19_StopReturnsAndHalts ==
  /\ [](ctl = "stopping" =>
          ENABLED (stop_joined \/ stop_timed_out \/ driver_step(loop_task)))
  /\ [][stop_returns => (state'.status = "stopped" /\ state'.phase = "idle")]_vars
  /\ [][(state.status = "stopped" /\ state'.status = "stopped") =>
          /\ state'.cycle_number = state.cycle_number
          /\ state'.phase = "idle"
          /\ \A e \in ExecIds : ex'[e].calls <= ex[e].calls]_vars

force_cancelled == stop_returns /\ drv'[loop_task].pc = "cancelled"

\* C20: once stop() has set the stop event, the waits of the driver end on
\* it: a driver in its inter-cycle wait or waiting for resume exits, no
\* backoff sleep is followed by a new attempt, and stop() never has to cancel
\* a driver that waits for resume or whose subtask sleeps in a backoff.
C20_StopObservedAtEverySuspension ==
  /\ [][\A d \in DriverIds :
          (stop_event /\ drv[d].pc \in {"sleep", "pause_woken"} /\ drv'[d] # drv[d])
             => drv'[d].pc = "exited"]_vars
  /\ [][\A e \in ExecIds :
          (stop_event /\ ex[e].pc = "backoff") => ex'[e].pc # "attempt"]_vars
  /\ [][force_cancelled =>
          /\ drv[loop_task].pc # "pause_wait"
          /\ \A e \in running_children(loop_task) : ex[e].pc # "backoff"]_vars

\* The statuses a document may carry in each folder (section 4.7); an
\* approval request awaiting approval is written with status "pending".
folder_statuses(folder) ==
  CASE folder = "Needs_Action" -> {"queued", "dispatched", "executing"}
    [] folder = "Done" -> {"completed"}
    [] folder = "Pending_Approval" -> {"awaiting_approval", "pending"}
    [] folder = "Approved" -> {"approved"}
    [] folder = "Rejected" -> {"rejected"}
    [] OTHER -> {}

\* C28: every readable document's status field agrees with the folder that
\* holds it: Needs_Action only queued, dispatched or executing, Done only
\* completed, Pending_Approval only awaiting approval, Approved only
\* approved, Rejected only rejected.
C28_FolderMirrorsStatus ==
  \A folder \in {"Needs_Action", "Done", "Pending_Approval", "Approved", "Rejected"} :
    \A id \in TaskIds \cup {DocId} :
      visible(folder, id) =>
        /\ "status" \in DOMAIN doc_at(json_path(folder, id)).d
        /\ doc_at(json_path(folder, id)).d.status \in folder_statuses(folder)

\* Driver d's cycle sets the phase to updating in this step.
becomes_updating(d) ==
  /\ drv[d].pc # "update"
  /\ drv'[d].pc = "update"

\* A subtask that has been created and has not returned.
unfinished(rec) == rec.pc \in {"created", "attempt", "backoff", "moving"}

\* C36: within a cycle the phase becomes updating only after every subtask
\* spawned in that cycle has finished, and at that point tasks_in_flight
\* is 0.
C36_UpdatingAfterSubtasks ==
  [][\A d \in DriverIds :
       becomes_updating(d)
         => /\ state'.phase = "updating"
            /\ \A k \in Slots : ~unfinished(ex'[ex_pid(d, k)])
            /\ state'.tasks_in_flight = 0]_vars

(***************************************************************************)
(* Claims about the dispatcher, checked under SpecDisp.                    *)
(***************************************************************************)

worker_stats(name) == heap[agent_stats[name]]

in_flight(name) ==
  \E p \in DispFrames : calls[p].pc = "executing" /\ calls[p].name = name

\* C9: for every worker name, tasks_completed + tasks_failed is at most
\* tasks_dispatched in every reachable state, for any interleaving of
\* dispatch_task, register_agent and unregister_agent, and the two are equal
\* whenever no dispatch on that worker is in flight.
C9_StatsConsistency ==
  \A name \in DOMAIN agent_stats :
    LET s == worker_stats(name) IN
    /\ s.tasks_completed + s.tasks_failed <= s.tasks_dispatched
    /\ ~in_flight(name) => s.tasks_completed + s.tasks_failed = s.tasks_dispatched

\* C10: with load_balance on, for any interleaving of concurrent
\* dispatch_task calls, the current_load of every AgentStats object, that of
\* each registered worker included, is at least 0 and at most max_agent_load.
C10_LoadBound ==
  \A o \in ObjectIds : heap[o].current_load >= 0 /\ heap[o].current_load <= max_agent_load

\* A registered worker is at max_agent_load with its calls in flight, and a
\* further call for a task type it handles was refused.
C10_Witness ==
  /\ load_balance
  /\ calls[1].pc = "executing"
  /\ calls[1].name \in DOMAIN agent_stats
  /\ agent_stats[calls[1].name] = calls[1].obj
  /\ worker_stats(calls[1].name).current_load = max_agent_load
  /\ calls[MaxInFlight].pc = "idle"
  /\ calls[MaxInFlight].ret = "NO_AGENT_AVAILABLE"
  /\ calls[MaxInFlight].type \in worker_capabilities(calls[1].name)


rat_add(x, y) == <<x[1] * y[2] + y[1] * x[2], x[2] * y[2]>>
rat_ge(x, y) == x[1] * y[2] >= y[1] * x[2]

stats_of(name) == IF name \in DOMAIN agent_stats THEN heap[agent_stats[name]] ELSE AgentStats

known_unhealthy(name) == name \in DOMAIN agent_health /\ ~agent_health[name]

\* The score as the claim states it, a fraction:
\* 100 - 50 (unhealthy) - 10 * load + 20 * completed / dispatched
\* + max(0, 10 - avg / 1000).
stated_score(name) ==
  LET s == stats_of(name)
      avg == s.avg_execution_time_ms
      base == 100 - (IF prefer_healthy_agents /\ known_unhealthy(name) THEN 50 ELSE 0)
                  - 10 * s.current_load
      rate == IF s.tasks_dispatched > 0
                THEN <<20 * s.tasks_completed, s.tasks_dispatched>> ELSE <<0, 1>>
      speed == IF 10000 * avg[2] > avg[1]
                 THEN <<10000 * avg[2] - avg[1], 1000 * avg[2]>> ELSE <<0, 1>> IN
  rat_add(rat_add(<<base, 1>>, rate), speed)

position(name) == CHOOSE i \in 1..Len(dict_keys(agents)) : dict_keys(agents)[i] = name

eligible(task_type) ==
  {name \in WorkerNames :
     /\ dict_has(agents, name)
     /\ task_type \in worker_capabilities(name)
     /\ stats_of(name).current_load < max_agent_load}

\* C21: for every task type, find_agent returns none when no registered
\* worker that can handle the type is below max_agent_load, and otherwise a
\* worker among those whose score (as stated above) no other of them exceeds,
\* the earliest registered of the best; a worker at capacity is never
\* returned.
C21_FindAgentBest ==
  load_balance =>
    \A t \in TaskTypes :
      LET r == find_agent(t) IN
      IF eligible(t) = {} THEN r = ""
      ELSE /\ r \in eligible(t)
           /\ \A o \in eligible(t) :
                /\ rat_ge(stated_score(r), stated_score(o))
                /\ rat_ge(stated_score(o), stated_score(r)) => position(r) <= position(o)

next_frame == CHOOSE p \in DispFrames :
                calls[p].pc = "idle" /\ \A q \in DispFrames : calls[q].pc = "idle" => p <= q

dispatch_called == dn'.dispatches = dn.dispatches + 1

no_agent(e) == ex[e].pc = "returned" /\ _find_agent_for_task(ex[e].task) = 0

C35_LoopRespectsMaxAgentLoad ==
  \A w \in WorkerNames : sched.running[w] <= max_agent_load
(***************************************************************************)
(* Claims about the scheduler, checked under SpecSched.                    *)
(***************************************************************************)

is_permutation(s, t) ==
  /\ Len(s) = Len(t)
  /\ \E f \in [1..Len(s) -> 1..Len(s)] :
       /\ \A i, j \in 1..Len(s) : f[i] = f[j] => i = j
       /\ \A i \in 1..Len(s) : s[i] = t[f[i]]

\* created_at of a task, in ms before now.
created_before_now(t) == t.age_ms

\* C23: the result of prioritize_tasks is a permutation of the batch, its
\* scores descend, and of two tasks with equal score the one created earlier
\* comes first, whatever the order of the batch.
C23_SortedByScoreThenCreatedAt ==
  sched.pc = "returned" =>
    /\ is_permutation(sched.result, sched.batch)
    /\ \A i, j \in 1..Len(sched.result) :
         i < j =>
           /\ task_score(sched.result[i]) >= task_score(sched.result[j])
           /\ task_score(sched.result[i]) = task_score(sched.result[j])
                => created_before_now(sched.result[i]) >= created_before_now(sched.result[j])

\* The score as the claim states it, times 10000: W[priority], plus
\* age_weight (0.1) times the age in seconds, plus the starvation bonus.
stated_task_score(t) ==
  LET W == [critical |-> 100, high |-> 50, medium |-> 25, low |-> 10]
      starvation_bonus ==
        IF t.priority \in {"critical", "high"} \/ t.age_ms <= starvation_threshold_ms
          THEN 0
          ELSE 50 * (t.age_ms - starvation_threshold_ms) IN
  W[t.priority] * 10000 + t.age_ms + starvation_bonus

batch_tasks == {sched.batch[i] : i \in 1..Len(sched.batch)}

index_in_result(t) == CHOOSE i \in 1..Len(sched.result) : sched.result[i] = t

\* C24: the score of every task of the batch is W[priority] + age_weight *
\* age_seconds + starvation_bonus as stated; in the result a critical task
\* comes before every low task of the same age; and of two low tasks the
\* one older than the threshold has a strictly higher score than a younger
\* one.
C24_ScoreFormula ==
  sched.pc = "returned" =>
    /\ \A t \in batch_tasks : task_score(t) = stated_task_score(t)
    /\ \A t, u \in batch_tasks :
         /\ (t.priority = "critical" /\ u.priority = "low" /\ t.age_ms = u.age_ms)
              => index_in_result(t) < index_in_result(u)
         /\ (t.priority = "low" /\ u.priority = "low" /\ t.age_ms > u.age_ms
              /\ t.age_ms > starvation_threshold_ms)
              => task_score(t) > task_score(u)

\* C24, amended: the score of every task is as stated; a critical task comes
\* before every low task of the same age when that age is not above the
\* starvation threshold; a low task older than the threshold scores
\* strictly higher than a younger low task.
C24_ScoreFormulaUpToThreshold ==
  sched.pc = "returned" =>
    /\ \A t \in batch_tasks : task_score(t) = stated_task_score(t)
    /\ \A t, u \in batch_tasks :
         /\ (t.priority = "critical" /\ u.priority = "low" /\ t.age_ms = u.age_ms
              /\ t.age_ms <= starvation_threshold_ms)
              => index_in_result(t) < index_in_result(u)
         /\ (t.priority = "low" /\ u.priority = "low" /\ t.age_ms > u.age_ms
              /\ t.age_ms > starvation_threshold_ms)
              => task_score(t) > task_score(u)

\* A batch with a low task before a critical one of the same age, and a low
\* task older than the threshold, has been sorted.
C24_Witness ==
  /\ sched.pc = "returned"
  /\ Len(sched.batch) = 3
  /\ sched.batch[1].priority = "low" /\ sched.batch[1].age_ms = 0
  /\ sched.batch[2].priority = "critical" /\ sched.batch[2].age_ms = 0
  /\ sched.batch[3].priority = "low" /\ sched.batch[3].age_ms > starvation_threshold_ms

\* The score the cycle in progress gives to the task of document id.
cycle_score(id) ==
  LET i == CHOOSE i \in 1..Len(sched.batch) : sched.batch[i].id = id IN
  task_score(sched.batch[i])

\* The cycle in progress scores low task id above a medium task of age 0.
above_new_medium(id) ==
  /\ sched.pc = "executing"
  /\ \E i \in 1..Len(sched.batch) : sched.batch[i].id = id
  /\ cycle_score(id) > _calculate_score("medium", 0)

\* C25: starvation freedom in the loop: a low-priority task that stays in
\* Needs_Action is, after finitely many cycles, given a score above that of a
\* newly arrived medium-priority task of age 0 (or it has left the folder).
C25_StarvationFree ==
  \A id \in QueueIds :
    [](sched.docs[id] = "low" => <>(sched.docs[id] # "low" \/ above_new_medium(id)))

\* The cycle in progress executes the task of document id: it is among the
\* first max_concurrent_tasks tasks of the prioritised scan.
given_a_slot(id) ==
  /\ sched.pc = "executing"
  /\ \E i \in 1..Len(tasks_to_execute(sched.result)) :
       tasks_to_execute(sched.result)[i].id = id

\* C34: while the loop keeps running, every task in Needs_Action whose worker
\* would succeed is eventually executed (and so moved to Done), even when
\* max_concurrent_tasks or more higher-scoring tasks fail on every cycle.
C34_EveryTaskEventuallyRuns ==
  \A id \in QueueIds :
    [](sched.docs[id] # "none" => <>(sched.docs[id] = "none" \/ given_a_slot(id)))
(***************************************************************************)
(* Claims about the approval workflow                                      *)
(***************************************************************************)

\* The approval is readable in `folder` and carries `status`.
approval_in(folder, status) ==
  /\ visible(folder, DocId)
  /\ "status" \in DOMAIN doc_at(json_path(folder, DocId)).d
  /\ doc_at(json_path(folder, DocId)).d.status = status
  /\ doc_at(json_path(folder, DocId)).d["_vault_metadata"].folder = folder

\* Caller p begins a call of the given type in this step.
call_begins(p, type) ==
  /\ ap.calls[p].pc = "idle"
  /\ ap'.calls[p].pc # "idle"
  /\ ap'.calls[p].type = type

\* A call of the given type by caller p returns in this step.
call_returns(p, type) ==
  /\ ap.calls[p].pc # "returned"
  /\ ap'.calls[p].pc = "returned"
  /\ ap'.calls[p].type = type

\* Caller p's call met a pending approval and no other call ran during it.
sequential_on_pending(p) ==
  ap'.calls[p].pending /\ ~ap'.calls[p].overlap

\* C26: approve(id) on a pending approval moves the document from
\* Pending_Approval to Approved with status approved and emits
\* approval:resolved; every approve(id) called after an approve has succeeded
\* returns NOT_FOUND at once, emits no event and changes no folder.
C26_ApproveIdempotent ==
  [][\A p \in ApCallers :
       /\ (call_returns(p, "approve") /\ sequential_on_pending(p))
            => /\ ap'.calls[p].code = ""
               /\ approval_in("Approved", "approved")'
               /\ ~path_exists(json_path("Pending_Approval", DocId))'
               /\ ap'.events = Append(ap.events, <<"approval:resolved", DocId, "approved">>)
       /\ (call_begins(p, "approve") /\ ap.approved)
            => /\ ap'.calls[p].pc = "returned"
               /\ ap'.calls[p].code = "NOT_FOUND"
               /\ ap'.events = ap.events
               /\ files' = files
               /\ idata' = idata]_vars

\* A second approve has returned NOT_FOUND after a first one succeeded, and
\* the approved document is in Approved.
C26_Witness ==
  /\ \E p \in ApCallers : /\ ap.calls[p].pc = "returned"
                          /\ ap.calls[p].type = "approve"
                          /\ ap.calls[p].after_approve
                          /\ ap.calls[p].code = "NOT_FOUND"
  /\ approval_in("Approved", "approved")
  /\ ap.events = <<<<"approval:resolved", DocId, "approved">>>>

\* C27: reject requires a reason: a reject without reason returns an error
\* and leaves the approval in Pending_Approval; a reject with a reason on a
\* pending approval moves the document to Rejected with status rejected and
\* emits approval:resolved.
C27_RejectRequiresReason ==
  [][\A p \in ApCallers :
       /\ (call_returns(p, "reject") /\ ap'.calls[p].reason = "None")
            => /\ ap'.calls[p].code # ""
               /\ ap'.events = ap.events
               /\ ap'.calls[p].pending => approval_in("Pending_Approval", "pending")'
       /\ (call_returns(p, "reject") /\ ap'.calls[p].reason # "None"
             /\ sequential_on_pending(p))
            => /\ ap'.calls[p].code = ""
               /\ approval_in("Rejected", "rejected")'
               /\ ~path_exists(json_path("Pending_Approval", DocId))'
               /\ ap'.events = Append(ap.events, <<"approval:resolved", DocId, "rejected">>)]_vars

\* The folder a call of the given type moves the approval to.
resolved_folder(type) == IF type = "approve" THEN "Approved" ELSE "Rejected"

\* No approve or reject is in flight.
approval_quiet == \A p \in ApCallers : ap.calls[p].pc # "moving"

\* C32: for any interleaving of approve(id) and reject(id) on the same pending
\* approval, the document ends in exactly one of Approved and Rejected, never
\* in both, and that folder is the one of the operation that reported success.
C32_ApproveRejectExclusive ==
  (approval_quiet /\ ap.events # <<>>)
    => /\ path_exists(json_path("Approved", DocId))
            # path_exists(json_path("Rejected", DocId))
       /\ \A p \in ApCallers :
            (ap.calls[p].pc = "returned" /\ ap.calls[p].code = "")
              => path_exists(json_path(resolved_folder(ap.calls[p].type), DocId))

\* C39: get(approval_id) for an approval that has been created never returns
\* NOT_FOUND, however its folder probes interleave with a concurrent approve
\* or reject of the same id.
C39_GetFindsCreated ==
  \A p \in ApCallers :
    (ap.calls[p].pc = "returned" /\ ap.calls[p].type = "get")
      => ap.calls[p].code = ""

(***************************************************************************)
(* Claims about the event bus                                              *)
(***************************************************************************)

\* The key handler h was registered under in dict d, if any.
in_dict(d, h) ==
  \E i \in 1..Len(d) : \E j \in 1..Len(d[i].handlers) : d[i].handlers[j] = h
key_in(d, h) ==
  d[CHOOSE i \in 1..Len(d) : \E j \in 1..Len(d[i].handlers) : d[i].handlers[j] = h].event
is_subscriber(h) == in_dict(eb._handlers, h) \/ in_dict(eb._async_handlers, h)
registered_topic(h) ==
  IF in_dict(eb._handlers, h) THEN key_in(eb._handlers, h)
  ELSE key_in(eb._async_handlers, h)

\* The stated rule: the registered topic equals the topic, or it ends in `*`
\* and the part before the `*` is a prefix of the topic.
stated_match(pattern, topic) ==
  \/ pattern = topic
  \/ /\ pattern[Len(pattern)] = "*"
     /\ Len(pattern) - 1 <= Len(topic)
     /\ \A i \in 1..(Len(pattern) - 1) : topic[i] = pattern[i]

was_invoked(h) == \E i \in 1..Len(eb.frame.invoked) : eb.frame.invoked[i] = h

\* C29: emit(topic, data) invokes a registered subscriber if and only if its
\* registered topic matches the topic by the stated rule.
C29_EmitInvokesMatching ==
  (eb.frame.pc = "returned" /\ eb.frame.call = "emit") =>
    \A h \in HandlerIds :
      is_subscriber(h) =>
        (was_invoked(h) <=> stated_match(registered_topic(h), eb.frame.event))

\* The subscribers the call in progress is to reach: emit those of _handlers,
\* emit_async those of both dicts, under the matching rule.
reached(h) ==
  /\ stated_match(registered_topic(h), eb.frame.event)
  /\ in_dict(eb._handlers, h) \/ eb.frame.call = "emit_async"

\* C30: when a subscriber raises during emit or emit_async, the exception
\* does not reach the emitter and every other subscriber the call reaches is
\* still invoked.
C30_SubscriberErrorsIsolated ==
  (eb.frame.pc = "returned"
     /\ \E h \in HandlerIds : was_invoked(h) /\ eb.raises[h]) =>
    /\ ~eb.frame.propagated
    /\ \A h \in HandlerIds : (is_subscriber(h) /\ reached(h)) => was_invoked(h)

\* A handler raised and the one registered after it was invoked all the same.
C30_Witness ==
  /\ eb.frame.pc = "returned"
  /\ eb.frame.call = "emit"
  /\ eb.frame.invoked = <<1, 2>>
  /\ eb.raises[1]
  /\ ~eb.frame.propagated

seq_members(s) == {s[i] : i \in 1..Len(s)}

\* C37: handler-list mutations do not interleave with an emit: when a
\* subscriber calls on or off while an emit is in progress, every subscriber
\* that was registered and matching when the emit began is still invoked and
\* the emit completes without raising.
C37_MutationDuringEmit ==
  eb.frame.pc = "returned"
    => /\ ~eb.frame.raised
       /\ seq_members(eb.frame.began) \subseteq seq_members(eb.frame.invoked)
(***************************************************************************)
(* Claims about the running loop                                           *)
(***************************************************************************)

\* Driver d's cycle ends in an exception in this step: the step reaches the
\* call of the scheduler and leaves the phase at dispatching.
cycle_raised(d) ==
  /\ _run_loop(d) \/ _scan_for_tasks(d)
  /\ state'.phase = "dispatching"

\* The next cycle of driver d begins in this step.
next_cycle(d) ==
  /\ _run_loop(d)
  /\ state'.cycle_number = state.cycle_number + 1

\* C31: an exception raised during a cycle sets state.error and does not end
\* the driver: the status stays running, the driver goes to the inter-cycle
\* wait, and after the wait its next cycle runs.
C31_CycleExceptionContained ==
  /\ [][\A d \in DriverIds :
          cycle_raised(d) => /\ state'.error # ""
                             /\ drv'[d].pc = "sleep"
                             /\ state'.status = "running"]_vars
  /\ [](\A d \in DriverIds :
          (drv[d].pc = "sleep" /\ state.error # "" /\ state.cycle_number < MaxCycles)
            => ENABLED next_cycle(d))

\* A second cycle has begun after the first one raised.
C31_Witness ==
  /\ state.error # ""
  /\ state.cycle_number = 2
  /\ state.status = "running"
  /\ \E d \in DriverIds : drv[d].pc = "sleep"

\* The file of Needs_Action that a task was scanned from: the documents are
\* named after the ids in TaskIds and carry that id or "x" before it.
scanned_file(task) ==
  IF task.id \in TaskIds THEN task.id
  ELSE CHOOSE f \in TaskIds : task.id = "x" \o f

\* Subtask e emits task:completed and returns in this step.
emits_completed(e) ==
  /\ ex[e].pc # "returned"
  /\ ex'[e].pc = "returned"
  /\ ex'[e].ev # <<>>
  /\ ex'[e].ev[Len(ex'[e].ev)] = "task:completed"

\* C33: whenever the loop emits task:completed for a scanned document, the
\* document is in Done and no longer in Needs_Action at that moment, whatever
\* its file name and content id; so a task that succeeded in one cycle is not
\* executed again in the next.
C33_CompletedIsInDone ==
  [][/\ \A e \in ExecIds :
          emits_completed(e)
            => /\ visible("Done", scanned_file(ex[e].task))'
               /\ ~path_exists(json_path("Needs_Action", scanned_file(ex[e].task)))'
     /\ \A e, e2 \in ExecIds :
          (ex[e].pc = "returned" /\ ex[e].result.success
             /\ ex[e2].pc # "created" /\ ex'[e2].pc = "created")
            => scanned_file(ex'[e2].task) # scanned_file(ex[e].task)]_vars


\* The files of Needs_Action that can be read and parsed into a task, and
\* those that cannot.
parseable(f) ==
  /\ visible("Needs_Action", f)
  /\ doc_at(json_path("Needs_Action", f)).d.priority \in Priority
unparseable(f) ==
  /\ path_exists(json_path("Needs_Action", f))
  /\ ~parseable(f)

\* Driver d's scan ends in this step and its tasks are dispatched.
scan_dispatched(d) ==
  /\ _run_loop(d) \/ _scan_for_tasks(d)
  /\ drv'[d].pc \in {"exec", "update"}

\* The ids of the tasks driver d has handed to subtasks or left pending.
scheduled_ids(d) ==
  {ex[ex_pid(d, k)].task.id : k \in {j \in Slots : ex[ex_pid(d, j)].pc = "created"}}
    \cup {state.pending_tasks[i].id : i \in 1..Len(state.pending_tasks)}

\* C38: a document of Needs_Action that cannot be read or parsed into a task
\* is skipped without halting the scan: the tasks of the other documents are
\* scheduled, the first max_concurrent_tasks of them are executed in that
\* cycle, and the cycle goes on without setting state.error.
C38_UnparseableSkipped ==
  /\ [][\A d \in DriverIds :
          scan_dispatched(d)
            => /\ scheduled_ids(d)' =
                    {doc_at(json_path("Needs_Action", f)).d.id :
                       f \in {g \in TaskIds : parseable(g)}}
               /\ (\E f \in TaskIds : parseable(f)) => drv'[d].pc = "exec"
               /\ state'.error = ""]_vars
  /\ [](~sched.raises => state.error = "")

\* A cycle has run the task of t2 to its end and gone to the inter-cycle wait
\* without an error, with the unparseable t1 still in Needs_Action.
C38_Witness ==
  /\ unparseable("t1")
  /\ state.cycle_number = 1
  /\ state.completed_tasks + state.failed_tasks = 1
  /\ state.error = ""
  /\ \E d \in DriverIds : drv[d].pc = "sleep"

\* Task t is handed to a subtask in this step.
dispatched(t) ==
  \E e \in ExecIds : /\ ex[e].pc # "created"
                     /\ ex'[e].pc = "created"
                     /\ ex'[e].task.id = t.id

\* C40: a task added with enqueue_task stays in pending_tasks until it is
\* dispatched: it leaves the list only in a step that hands it to a subtask
\* (and a later cycle of the running loop then executes it).
C40_EnqueuedStaysUntilDispatched ==
  [][\A i \in 1..Len(state.pending_tasks) :
       LET t == state.pending_tasks[i] IN
       (t.id \in EnqueueIds
          /\ \A j \in 1..Len(state'.pending_tasks) : state'.pending_tasks[j] # t)
         => dispatched(t)]_vars
====
